---- MODULE Spec2Model ----
(***************************************************************************)
(* Category selection for Instagram post generation.                       *)
(*                                                                         *)
(* Models select_category_for_generation and its helpers as they are       *)
(* written in instagram-scraper/category_selector.py and in the copy kept  *)
(* in services/generator.py.  Texts are strings, JSON objects are          *)
(* functions whose DOMAIN is the set of keys that are present, and the     *)
(* scores are IEEE-754 doubles computed with round-to-nearest-even.        *)
(***************************************************************************)
EXTENDS Integers, Sequences, FiniteSets, TLC

(***************************************************************************)
(* Natural numbers of any size: little-endian sequences of limbs, without  *)
(* leading zero limbs (<<>> is 0).  TLC's integers have 32 bits, a double  *)
(* has a 53-bit significand.                                               *)
(***************************************************************************)
LimbBits == 6 + 6
Base == 2 ^ LimbBits

Limb(a, i) == IF i <= Len(a) THEN a[i] ELSE 0

RECURSIVE BNNorm(_)
BNNorm(a) ==
    IF a = <<>> THEN <<>>
    ELSE IF a[Len(a)] = 0 THEN BNNorm(SubSeq(a, 1, Len(a) - 1))
    ELSE a

BNOfInt(n) == BNNorm(<<n % Base, (n \div Base) % Base, n \div (Base * Base)>>)

RECURSIVE BNAddC(_, _, _, _)
BNAddC(a, b, i, c) ==
    IF i > Len(a) /\ i > Len(b)
    THEN IF c = 0 THEN <<>> ELSE <<c>>
    ELSE LET s == Limb(a, i) + Limb(b, i) + c
         IN  <<s % Base>> \o BNAddC(a, b, i + 1, s \div Base)

BNAdd(a, b) == BNAddC(a, b, 1, 0)

RECURSIVE BNMulSmallC(_, _, _, _)
BNMulSmallC(a, k, i, c) ==
    IF i > Len(a)
    THEN IF c = 0 THEN <<>> ELSE BNOfInt(c)
    ELSE LET s == a[i] * k + c
         IN  <<s % Base>> \o BNMulSmallC(a, k, i + 1, s \div Base)

\* a * k for a small natural k (k <= Base)
BNMulSmall(a, k) == BNNorm(BNMulSmallC(a, k, 1, 0))

\* a * Base^n
BNShiftLimbs(a, n) == IF a = <<>> THEN <<>> ELSE [i \in 1..n |-> 0] \o a

\* a \div Base^n
BNDropLimbs(a, n) == IF Len(a) <= n THEN <<>> ELSE SubSeq(a, n + 1, Len(a))

RECURSIVE BNMulR(_, _, _)
BNMulR(a, b, i) ==
    IF i > Len(b) THEN <<>>
    ELSE BNAdd(BNShiftLimbs(BNMulSmall(a, b[i]), i - 1), BNMulR(a, b, i + 1))

BNMul(a, b) == BNMulR(a, b, 1)

\* quotient and remainder of a by a small natural d (0 < d <= Base)
RECURSIVE BNDivR(_, _, _, _)
BNDivR(a, d, i, r) ==
    IF i = 0 THEN [q |-> <<>>, r |-> r]
    ELSE LET cur  == r * Base + a[i]
             rest == BNDivR(a, d, i - 1, cur % d)
         IN  [q |-> Append(rest.q, cur \div d), r |-> rest.r]

BNDivSmall(a, d) ==
    LET qr == BNDivR(a, d, Len(a), 0) IN [q |-> BNNorm(qr.q), r |-> qr.r]

\* -1, 0, 1 as a < b, a = b, a > b
RECURSIVE BNCmpR(_, _, _)
BNCmpR(a, b, i) ==
    IF i = 0 THEN 0
    ELSE IF a[i] < b[i] THEN -1
    ELSE IF a[i] > b[i] THEN 1
    ELSE BNCmpR(a, b, i - 1)

BNCmp(a, b) ==
    IF Len(a) < Len(b) THEN -1
    ELSE IF Len(a) > Len(b) THEN 1
    ELSE BNCmpR(a, b, Len(a))

RECURSIVE IntBitLen(_)
IntBitLen(n) == IF n = 0 THEN 0 ELSE 1 + IntBitLen(n \div 2)

BNBitLen(a) ==
    IF a = <<>> THEN 0 ELSE LimbBits * (Len(a) - 1) + IntBitLen(a[Len(a)])

\* bit j of a, bit 0 being the least significant
BNBit(a, j) == (Limb(a, (j \div LimbBits) + 1) \div (2 ^ (j % LimbBits))) % 2

\* some bit of a below bit j is set
BNLowNonZero(a, j) ==
    \/ \E i \in 1..(j \div LimbBits) : Limb(a, i) # 0
    \/ Limb(a, (j \div LimbBits) + 1) % (2 ^ (j % LimbBits)) # 0

\* a \div 2^d
BNShiftRight(a, d) ==
    BNDivSmall(BNDropLimbs(a, d \div LimbBits), 2 ^ (d % LimbBits)).q

\* a * 2^d
BNShiftLeft(a, d) ==
    BNShiftLimbs(BNMulSmall(a, 2 ^ (d % LimbBits)), d \div LimbBits)

\* a / 2^d rounded to the nearest natural, ties to even
BNRoundShift(a, d) ==
    LET q  == BNShiftRight(a, d)
        up == /\ d > 0
              /\ BNBit(a, d - 1) = 1
              /\ (BNLowNonZero(a, d - 1) \/ BNBit(a, d) = 1)
    IN  IF up THEN BNAdd(q, <<1>>) ELSE q

(***************************************************************************)
(* Doubles.  A double x in [0, 1] is held as the natural x * 2^ScaleBits,  *)
(* which is exact for every double between 2^-(ScaleBits - 52) and 1.      *)
(* Every operation computes the exact result and rounds it to 53           *)
(* significant bits, ties to even, as the hardware does.                   *)
(***************************************************************************)
SignificandBits == 50 + 3
ScaleLimbs == 4 + 4
ScaleBits == ScaleLimbs * LimbBits

Round53(a) ==
    LET d == BNBitLen(a) - SignificandBits
    IN  IF d <= 0 THEN a ELSE BNShiftLeft(BNRoundShift(a, d), d)

FZero == <<>>
FOne == BNShiftLimbs(<<1>>, ScaleLimbs)

\* the double nearest to m / n, for naturals m and n with 0 < n <= Base:
\* int / int of Python, and the value of a decimal literal m/n
FDivIntRaw(m, n) ==
    LET qr == BNDivSmall(BNShiftLimbs(BNOfInt(m), ScaleLimbs + 1), n)
        \* a non-zero remainder is kept as a sticky bit below the rounding point
        sticky == IF qr.r = 0 THEN qr.q ELSE BNAdd(qr.q, <<1 - (Limb(qr.q, 1) % 2)>>)
    IN  BNDropLimbs(Round53(sticky), 1)

FMulRaw(x, y) == BNDropLimbs(Round53(BNMul(x, y)), ScaleLimbs)

FAddRaw(x, y) == Round53(BNAdd(x, y))

FLt(x, y) == BNCmp(x, y) < 0
FLe(x, y) == BNCmp(x, y) <= 0
FMin(x, y) == IF FLt(y, x) THEN y ELSE x

\* x * 100 rounded to the nearest integer, ties to even: the digits that
\* round(x, 2) and format(x, '.2f') produce
Hundredths(x) ==
    LET h == BNRoundShift(BNMulSmall(x, 100), ScaleBits) IN Limb(h, 1)

(***************************************************************************)
(* Strings.  A text is a TLA+ string; its characters are its substrings    *)
(* of length 1.                                                            *)
(***************************************************************************)
LowerLetters == "abcdefghijklmnopqrstuvwxyz"
UpperLetters == "ABCDEFGHIJKLMNOPQRSTUVWXYZ"
Digits == "0123456789"
Whitespace == " \t\n\r"

CharAt(s, i) == IF 1 <= i /\ i <= Len(s) THEN SubSeq(s, i, i) ELSE ""

RECURSIVE IndexOfChar(_, _, _)
IndexOfChar(c, s, i) ==
    IF i > Len(s) THEN 0
    ELSE IF SubSeq(s, i, i) = c THEN i
    ELSE IndexOfChar(c, s, i + 1)

\* c is one character and occurs in s
CharIn(c, s) == Len(c) = 1 /\ IndexOfChar(c, s, 1) > 0

\* sub in s
Contains(sub, s) ==
    \E i \in 1..(Len(s) - Len(sub) + 1) : SubSeq(s, i, i + Len(sub) - 1) = sub

\* any(word in s for word in words)
ContainsAny(words, s) == \E k \in 1..Len(words) : Contains(words[k], s)

LowerChar(c) ==
    LET i == IndexOfChar(c, UpperLetters, 1)
    IN  IF i > 0 THEN SubSeq(LowerLetters, i, i) ELSE c

\* str.lower()
RECURSIVE str_lower(_)
str_lower(s) ==
    IF s = "" THEN "" ELSE LowerChar(SubSeq(s, 1, 1)) \o str_lower(SubSeq(s, 2, Len(s)))

\* \w, \d and \s of the re module
IsWordChar(c) == CharIn(c, LowerLetters) \/ CharIn(c, UpperLetters) \/ CharIn(c, Digits) \/ c = "_"
IsDigit(c) == CharIn(c, Digits)
IsSpace(c) == CharIn(c, Whitespace)

\* re.sub(r'[^\w\s\'-]', ' ', s)
RECURSIVE strip_punctuation(_)
strip_punctuation(s) ==
    IF s = "" THEN ""
    ELSE LET c == SubSeq(s, 1, 1)
         IN  (IF IsWordChar(c) \/ IsSpace(c) \/ c = "'" \/ c = "-" THEN c ELSE " ")
                 \o strip_punctuation(SubSeq(s, 2, Len(s)))

\* str.split(): the maximal runs of non-whitespace characters, in order
RECURSIVE SplitFrom(_, _, _)
SplitFrom(s, i, cur) ==
    IF i > Len(s) THEN (IF cur = "" THEN <<>> ELSE <<cur>>)
    ELSE IF IsSpace(SubSeq(s, i, i))
         THEN (IF cur = "" THEN <<>> ELSE <<cur>>) \o SplitFrom(s, i + 1, "")
         ELSE SplitFrom(s, i + 1, cur \o SubSeq(s, i, i))

str_split(s) == SplitFrom(s, 1, "")

\* sep.join(parts)
RECURSIVE str_join(_, _)
str_join(sep, parts) ==
    IF parts = <<>> THEN ""
    ELSE IF Len(parts) = 1 THEN parts[1]
    ELSE parts[1] \o sep \o str_join(sep, Tail(parts))

\* xs[:n]
Take(xs, n) == SubSeq(xs, 1, IF Len(xs) < n THEN Len(xs) ELSE n)

(***************************************************************************)
(* extract_keywords                                                        *)
(***************************************************************************)
stop_words ==
    { "a", "an", "and", "are", "as", "at", "be", "by", "for",
      "from", "has", "he", "in", "is", "it", "its", "of", "on",
      "that", "the", "to", "was", "will", "with", "we", "our",
      "you", "your", "this", "these", "those", "about" }

\* words of three letters kept as well
KeepWord_three_letters(w) == Len(w) >= 3 /\ w \notin stop_words

KeepWord(w) == Len(w) > 3 /\ w \notin stop_words

extract_keywords(text) ==
    LET text_lower == str_lower(text)
        text_clean == strip_punctuation(text_lower)
        words      == str_split(text_clean)
    IN  SelectSeq(words, KeepWord)

(***************************************************************************)
(* detect_content_indicators                                               *)
(***************************************************************************)
Months ==
    << "january", "february", "march", "april", "may", "june", "july",
       "august", "september", "october", "november", "december" >>

\* a call-to-action list that only knows explicit sign-up wording
cta_words_sign_up_only == << "join", "sign up", "register", "deadline" >>
cta_words == << "apply", "join", "sign up", "register", "volunteer", "hiring", "deadline" >>
narrative_words == << "story", "experience", "testimonial", "journey", "impact" >>
educational_words == << "learn", "how to", "tips", "guide", "tutorial", "fact" >>
announcement_words == << "announcing", "new", "launching", "introducing", "reminder" >>

StartsAt(s, p, w) == p + Len(w) - 1 <= Len(s) /\ SubSeq(s, p, p + Len(w) - 1) = w

\* \d{1,2}/\d{1,2} matches at position p (the optional (/\d{2,4})? never
\* decides whether there is a match)
NumericDateAt(s, p) ==
    /\ IsDigit(CharAt(s, p))
    /\ \/ CharAt(s, p + 1) = "/" /\ IsDigit(CharAt(s, p + 2))
       \/ IsDigit(CharAt(s, p + 1)) /\ CharAt(s, p + 2) = "/" /\ IsDigit(CharAt(s, p + 3))

\* a match allowed to start anywhere
WordBoundaryAt_anywhere(s, p) == TRUE

\* \b before position p, the character at p being a word character
WordBoundaryAt(s, p) == p = 1 \/ ~IsWordChar(CharAt(s, p - 1))

\* re.search(r'\b(january|...|december|\d{1,2}/\d{1,2}(/\d{2,4})?)', s)
date_search(s) ==
    \E p \in 1..Len(s) :
        /\ WordBoundaryAt(s, p)
        /\ \/ \E m \in 1..Len(Months) : StartsAt(s, p, Months[m])
           \/ NumericDateAt(s, p)

\* the keys of the indicator dict, in insertion order
IndicatorKeys ==
    << "has_date", "has_cta", "has_narrative", "has_educational",
       "has_announcement", "has_question" >>

\* the checks chained, so that only the first one that applies is set
detect_content_indicators_first_match(text) ==
    LET text_lower == str_lower(text)
        has_date   == date_search(text_lower)
        has_cta    == ~has_date /\ ContainsAny(cta_words, text_lower)
    IN  [ has_date         |-> has_date,
          has_cta          |-> has_cta,
          has_narrative    |-> ~has_date /\ ~has_cta /\ ContainsAny(narrative_words, text_lower),
          has_educational  |-> ContainsAny(educational_words, text_lower),
          has_announcement |-> ContainsAny(announcement_words, text_lower),
          has_question     |-> Contains("?", text) ]

detect_content_indicators(text) ==
    LET text_lower == str_lower(text)
    IN  [ has_date         |-> date_search(text_lower),
          has_cta          |-> ContainsAny(cta_words, text_lower),
          has_narrative    |-> ContainsAny(narrative_words, text_lower),
          has_educational  |-> ContainsAny(educational_words, text_lower),
          has_announcement |-> ContainsAny(announcement_words, text_lower),
          has_question     |-> Contains("?", text) ]

(***************************************************************************)
(* Inputs.  user_text is a sequence of at most MaxWords different words,   *)
(* separated by single spaces.                                             *)
(***************************************************************************)
MaxWords == 2
MaxAvail == 2
MaxCats == 2

Vocab == { "Hiring!", "storytime", "3/15" }

SeqsUpTo(S, n) == UNION { [1..k -> S] : k \in 0..n }

\* the sequences of S in which nothing occurs twice
Injective(S) == { q \in S : \A i, j \in 1..Len(q) : q[i] = q[j] => i = j }

Texts == { str_join(" ", ws) : ws \in Injective(SeqsUpTo(Vocab, MaxWords)) }

CategoryIds == { "hiring_post", "story_post" }

\* the selection_logic records a category can have: a full one, and one
\* without content_indicators and purpose
LogicChoices ==
    { [ keywords |-> << "hiring", "volunteer" >>,
        content_indicators |-> << "Call to Action", "Deadline" >>,
        purpose |-> "recruitment" ],
      [ keywords |-> << "story" >> ] }

(***************************************************************************)
(* build_category_selector                                                 *)
(***************************************************************************)
purpose_keywords ==
    ("call_to_action" :> << "apply", "join", "recruit", "volunteer", "hiring", "position",
                            "sign up", "register" >>) @@
    ("announcement" :> << "deadline", "announcement", "reminder", "save the date",
                          "upcoming", "launching", "new" >>) @@
    ("storytelling" :> << "story", "impact", "event", "community", "volunteers",
                          "testimonial", "experience" >>) @@
    ("educational" :> << "learn", "guide", "how to", "tips", "tutorial", "facts",
                         "information" >>) @@
    ("testimonial" :> << "testimonial", "review", "feedback", "experience", "story",
                         "success" >>) @@
    ("behind_the_scenes" :> << "behind", "team", "process", "making", "work", "volunteers" >>) @@
    ("product" :> << "product", "service", "feature", "offer", "sale", "discount", "pricing" >>)

\* s.replace(old, ' ') for a one-character old
RECURSIVE replace_by_space(_, _)
replace_by_space(s, old) ==
    IF s = "" THEN ""
    ELSE (IF SubSeq(s, 1, 1) = old THEN " " ELSE SubSeq(s, 1, 1))
             \o replace_by_space(SubSeq(s, 2, Len(s)), old)

\* keywords before list(set(...)): those of the purpose, then the words of
\* the category name longer than 3
built_keywords(cat) ==
    LET cat_purpose == str_lower(IF "purpose" \in DOMAIN cat THEN cat.purpose ELSE "")
        name_words  == str_split(replace_by_space(replace_by_space(
                           str_lower(cat.category_name), "-"), "_"))
    IN  (IF cat_purpose \in DOMAIN purpose_keywords THEN purpose_keywords[cat_purpose] ELSE <<>>)
        \o SelectSeq(name_words, LAMBDA word : Len(word) > 3)

\* labels that name entries of the scorer's indicator table
content_indicators_from_table(cat_desc) ==
    (IF Contains("gradient", cat_desc) THEN << "call to action" >> ELSE <<>>)
    \o (IF Contains("photo", cat_desc) \/ Contains("image", cat_desc)
        THEN << "event announcement" >> ELSE <<>>)
    \o (IF Contains("text", cat_desc) THEN << "call to action" >> ELSE <<>>)
    \o (IF Contains("nature", cat_desc) \/ Contains("landscape", cat_desc)
        THEN << "impact showcase" >> ELSE <<>>)

content_indicators(cat_desc) ==
    (IF Contains("gradient", cat_desc) THEN << "uses gradients or vibrant colors" >> ELSE <<>>)
    \o (IF Contains("photo", cat_desc) \/ Contains("image", cat_desc)
        THEN << "features photographs or imagery" >> ELSE <<>>)
    \o (IF Contains("text", cat_desc) THEN << "text-heavy content" >> ELSE <<>>)
    \o (IF Contains("nature", cat_desc) \/ Contains("landscape", cat_desc)
        THEN << "nature or landscape themes" >> ELSE <<>>)

\* list(set(xs)): the distinct entries of xs, in an order the hashing of the
\* run decides
ListOfSet(xs) ==
    LET set == { xs[i] : i \in 1..Len(xs) }
    IN  { q \in [1..Cardinality(set) -> set] : \A i, j \in 1..Len(q) : q[i] = q[j] => i = j }

\* the selection_logic entries the category can get
selection_logic_entries(cat) ==
    { [ keywords |-> k,
        content_indicators |-> content_indicators(str_lower(cat.category_description)),
        purpose |-> str_lower(IF "purpose" \in DOMAIN cat THEN cat.purpose ELSE "") ] :
      k \in ListOfSet(built_keywords(cat)) }

\* categories as phase 1 detects them
DetectedCategories ==
    { [ category_id |-> "hiring_post", category_name |-> "Hiring Volunteer-Apply",
        category_description |-> "Photo posts with bold text", purpose |-> "mixed" ],
      [ category_id |-> "story_post", category_name |-> "Q&A",
        category_description |-> "Gradient cards over nature images",
        purpose |-> "Testimonial" ],
      [ category_id |-> "tips_post", category_name |-> "Tips",
        category_description |-> "Plain cards" ] }

SelectionLogicMemo ==
    [ cat \in DetectedCategories |-> selection_logic_entries(cat) ] @@ <<>>

\* the loop over the categories: selection_logic after the first n of them;
\* an id met again takes the entry of the later category
RECURSIVE selection_logic_after(_, _)
selection_logic_after(cats, n) ==
    IF n = 0 THEN { <<>> }
    ELSE { (cats[n].category_id :> entry) @@ logic :
             logic \in selection_logic_after(cats, n - 1),
             entry \in SelectionLogicMemo[cats[n]] }

\* the selectors build_category_selector can return
build_category_selector(category_data) ==
    IF "categories" \notin DOMAIN category_data
    THEN { [ available_categories |-> <<>>, selection_logic |-> <<>> ] }
    ELSE LET cats == category_data.categories
         IN  { [ available_categories |-> [ i \in 1..Len(cats) |-> cats[i].category_id ],
                 selection_logic |-> logic ] :
               logic \in selection_logic_after(cats, Len(cats)) }

(***************************************************************************)
(* Worked examples: longer texts with a selection logic of their own, on   *)
(* which the scores have other denominators than on Texts.                 *)
(***************************************************************************)
ScenarioTexts ==
    { "We're hiring a new volunteer coordinator, apply today!",
      "Hiring today: storytime",
      "Hiring volunteers! Apply: hiring, volunteer applying? New, May 3",
      "xyz" }

ScenarioLogicChoices ==
    { [ keywords |-> << "hiring", "volunteer", "apply" >>,
        content_indicators |-> << "call to action" >>,
        purpose |-> "call_to_action" ],
      [ keywords |-> << "story" >> ] }

\* every text and every selection logic a call is given
KnownTexts == Texts \cup ScenarioTexts
KnownLogic == LogicChoices \cup ScenarioLogicChoices

\* the texts a selection over a built selector is asked for
BuilderTexts ==
    { "We're hiring a new volunteer coordinator, apply today!",
      "Hiring volunteers! Apply: hiring, volunteer applying? New, May 3" }
BuiltLogic == UNION { SelectionLogicMemo[cat] : cat \in DetectedCategories }

(***************************************************************************)
(* Python values.  A dict is a function on the keys it has, a list is a    *)
(* sequence.  None is "None" where a string is expected and NoneObject     *)
(* where a dict is expected.  A call ends by returning a value or by       *)
(* raising an exception.                                                   *)
(***************************************************************************)
None == "None"
NoneObject == [ py_none |-> TRUE ]
IsNone(d) == "py_none" \in DOMAIN d

\* d.get(k, default)
Get(d, k, default) == IF k \in DOMAIN d THEN d[k] ELSE default

Returned(v) == [ outcome |-> "returned", value |-> v ]
Raised(e) == [ outcome |-> "raised", exception |-> e ]

\* bool(x) for x a string or None
Truthy(x) == x # None /\ x # ""

(***************************************************************************)
(* Tables of the text functions and of the double operations, over the     *)
(* operands that occur: each result is computed once.                      *)
(***************************************************************************)
Range(f) == { f[x] : x \in DOMAIN f }
Square(S) == S \X S
MaxOf(S) == CHOOSE m \in S : \A n \in S : n <= m

KeywordsMemo == [ t \in KnownTexts |-> extract_keywords(t) ] @@ <<>>

Keywords(text) == KeywordsMemo[text]

IndicatorsMemo == [ t \in KnownTexts |-> detect_content_indicators(t) ] @@ <<>>

Indicators(text) == IndicatorsMemo[text]

\* the longest list a score divides by
MaxRatio ==
    MaxOf({ Len(k) : k \in Range(KeywordsMemo) }
          \cup { Len(l.content_indicators) :
                   l \in { c \in KnownLogic : "content_indicators" \in DOMAIN c } }
          \cup { 1 })

\* matches / len(...) with matches <= len(...)
RatiosUpTo(n) == { r \in (0..n) \X (1..n) : r[1] <= r[2] }

\* the quotients of the scores, and the literals 0.3, 0.4 and 0.6
FDivMemo ==
    [ r \in RatiosUpTo(MaxRatio) \cup { <<3, 10>>, <<4, 10>>, <<6, 10>> }
        |-> FDivIntRaw(r[1], r[2]) ] @@ <<>>

FDivInt(m, n) == FDivMemo[<<m, n>>]

FMulMemo == [ p \in Square(Range(FDivMemo)) |-> FMulRaw(p[1], p[2]) ] @@ <<>>

FMul(x, y) == FMulMemo[<<x, y>>]

(***************************************************************************)
(* calculate_keyword_score, calculate_indicator_score                      *)
(***************************************************************************)
\* containment tested in one direction only
KeywordMatches_category_in_user(uk, category_keywords) ==
    \E j \in 1..Len(category_keywords) : Contains(category_keywords[j], uk)

\* any(ck in uk or uk in ck for ck in category_keywords)
KeywordMatches(uk, category_keywords) ==
    \E j \in 1..Len(category_keywords) :
        Contains(category_keywords[j], uk) \/ Contains(uk, category_keywords[j])

matched_keywords(user_keywords, category_keywords) ==
    SelectSeq(user_keywords, LAMBDA uk : KeywordMatches(uk, category_keywords))

calculate_keyword_score(user_keywords, category_keywords) ==
    IF user_keywords = <<>> \/ category_keywords = <<>> THEN FZero
    ELSE LET matches == Len(matched_keywords(user_keywords, category_keywords))
             score   == FDivInt(matches, Len(user_keywords))
         IN  FMin(score, FOne)

indicator_map ==
    ("call to action" :> "has_cta") @@
    ("deadline" :> "has_date") @@
    ("team expansion" :> "has_cta") @@
    ("past event recap" :> "has_narrative") @@
    ("volunteer stories" :> "has_narrative") @@
    ("impact showcase" :> "has_narrative") @@
    ("event announcement" :> "has_announcement") @@
    ("deadline reminder" :> "has_date") @@
    ("date-specific info" :> "has_date")

\* the label looked up as written
IndicatorMatches_case_sensitive(user_indicators, cat_indicator) ==
    /\ cat_indicator \in DOMAIN indicator_map
    /\ indicator_map[cat_indicator] \in DOMAIN user_indicators
    /\ user_indicators[indicator_map[cat_indicator]]

\* indicator_key = indicator_map.get(cat_indicator.lower());
\* indicator_key and user_indicators.get(indicator_key)
IndicatorMatches(user_indicators, cat_indicator) ==
    LET label == str_lower(cat_indicator)
    IN  /\ label \in DOMAIN indicator_map
        /\ indicator_map[label] \in DOMAIN user_indicators
        /\ user_indicators[indicator_map[label]]

calculate_indicator_score(user_indicators, category_indicators) ==
    IF category_indicators = <<>> THEN FZero
    ELSE LET matches == Len(SelectSeq(category_indicators,
                                      LAMBDA ci : IndicatorMatches(user_indicators, ci)))
             score   == FDivInt(matches, Len(category_indicators))
         IN  FMin(score, FOne)

\* the keyword score counted in full
keyword_weight_full == FOne

keyword_weight == FDivInt(6, 10)
indicator_weight == FDivInt(4, 10)
min_threshold == FDivInt(3, 10)

\* weight * score, for each weight and each score
WeightedValues ==
    { FMul(p[1], p[2]) : p \in { keyword_weight, indicator_weight } \X Range(FDivMemo) }

FAddMemo == [ p \in Square(WeightedValues) |-> FAddRaw(p[1], p[2]) ] @@ <<>>

FAdd(x, y) == FAddMemo[<<x, y>>]

HundredthsMemo == [ x \in Range(FAddMemo) \cup Range(FDivMemo) |-> Hundredths(x) ] @@ <<>>

RoundMemo == [ x \in DOMAIN HundredthsMemo |-> FDivIntRaw(HundredthsMemo[x], 100) ] @@ <<>>

\* round(x, 2): the double nearest to the two-digit decimal nearest to x
round2(x) == RoundMemo[x]

\* h hundredths written with two decimals
Fixed2(h) == ToString(h \div 100) \o "." \o ToString((h \div 10) % 10) \o ToString(h % 10)

\* format(x, '.2f')
format2f(x) == Fixed2(HundredthsMemo[x])

\* final_score = (0.6 * keyword_score) + (0.4 * indicator_score)
combined_score(keyword_score, indicator_score) ==
    FAdd(FMul(keyword_weight, keyword_score), FMul(indicator_weight, indicator_score))

\* the body of the scoring loop for one category that has selection logic:
\* (final_score, keyword_score, indicator_score)
score_category(logic, user_keywords, user_indicators) ==
    LET category_keywords   == Get(logic, "keywords", <<>>)
        category_indicators == Get(logic, "content_indicators", <<>>)
        keyword_score   == calculate_keyword_score(user_keywords, category_keywords)
        indicator_score == calculate_indicator_score(user_indicators, category_indicators)
        final_score     == combined_score(keyword_score, indicator_score)
    IN  << final_score, keyword_score, indicator_score >>

ScoreMemo ==
    [ x \in { << l, KeywordsMemo[t], IndicatorsMemo[t] >> : l \in KnownLogic, t \in KnownTexts }
            \cup { << l, KeywordsMemo[t], IndicatorsMemo[t] >> : l \in BuiltLogic, t \in BuilderTexts }
        |-> score_category(x[1], x[2], x[3]) ] @@ <<>>

CategoryScore(logic, user_keywords, user_indicators) ==
    ScoreMemo[<< logic, user_keywords, user_indicators >>]

(***************************************************************************)
(* select_category_for_generation                                          *)
(***************************************************************************)
\* the loop over available_categories; an entry is
\* (category_id, final_score, keyword_score, indicator_score)
\* selection_logic.get(category_id, {}): an id without an entry scored 0.0
RECURSIVE score_categories_default_logic(_, _, _, _)
score_categories_default_logic(available_categories, selection_logic, user_keywords, user_indicators) ==
    IF available_categories = <<>> THEN <<>>
    ELSE LET category_id == Head(available_categories)
             rest == score_categories_default_logic(Tail(available_categories), selection_logic,
                                                    user_keywords, user_indicators)
         IN  IF category_id \notin DOMAIN selection_logic
             THEN << << category_id, FZero, FZero, FZero >> >> \o rest
             ELSE << << category_id >> \o
                     CategoryScore(selection_logic[category_id], user_keywords, user_indicators) >>
                  \o rest

RECURSIVE score_categories(_, _, _, _)
score_categories(available_categories, selection_logic, user_keywords, user_indicators) ==
    IF available_categories = <<>> THEN <<>>
    ELSE LET category_id == Head(available_categories)
             rest == score_categories(Tail(available_categories), selection_logic,
                                      user_keywords, user_indicators)
         IN  IF category_id \notin DOMAIN selection_logic THEN rest
             ELSE << << category_id >> \o
                     CategoryScore(selection_logic[category_id], user_keywords, user_indicators) >>
                  \o rest

\* category_scores.sort(key=lambda x: x[1], reverse=True): a stable sort,
\* entries of equal score keep their order
RECURSIVE sort_by_score_desc(_)
sort_by_score_desc(entries) ==
    IF entries = <<>> THEN <<>>
    ELSE LET i == CHOOSE i \in 1..Len(entries) :
                      /\ \A j \in 1..Len(entries) : FLe(entries[j][2], entries[i][2])
                      /\ \A j \in 1..(i - 1) : FLt(entries[j][2], entries[i][2])
         IN  << entries[i] >> \o
             sort_by_score_desc(SubSeq(entries, 1, i - 1) \o SubSeq(entries, i + 1, Len(entries)))

\* next((cat for cat in categories if cat.get('category_id') == wanted), None)
find_category(categories, wanted) ==
    LET hits == { i \in 1..Len(categories) : Get(categories[i], "category_id", None) = wanted }
    IN  IF hits = {} THEN NoneObject
        ELSE categories[CHOOSE i \in hits : \A j \in hits : i <= j]

\* an empty dict for the missing category data
no_selector_result_empty_data ==
    [ selected_category_id |-> None,
      confidence_score     |-> FZero,
      reasoning            |-> "No category selector data available in analysis",
      category_data        |-> <<>> ]

\* returned when analysis_json is falsy or has no generation_category_selector
no_selector_result ==
    [ selected_category_id |-> None,
      confidence_score     |-> FZero,
      reasoning            |-> "No category selector data available in analysis",
      category_data        |-> NoneObject ]

\* returned when categories is missing or empty
no_categories_result ==
    [ selected_category_id |-> None,
      confidence_score     |-> FZero,
      reasoning            |-> "No categories available",
      category_data        |-> NoneObject ]

\* if not category_scores: fall back to the primary category
primary_fallback_result(analysis_json, categories) ==
    LET primary_id  == Get(Get(analysis_json, "analysis_metadata", <<>>), "primary_category", None)
        primary_cat == find_category(categories, primary_id)
    IN  [ selected_category_id |-> primary_id,
          confidence_score     |-> FZero,
          reasoning            |-> "No scoring data available, defaulting to primary category (most recent post)",
          category_data        |-> primary_cat ]

\* if best_score < 0.3, in category_selector.py
low_confidence_result(analysis_json, categories, best_score) ==
    LET primary_id  == Get(Get(analysis_json, "analysis_metadata", <<>>), "primary_category", None)
        primary_cat == find_category(categories, primary_id)
    IN  [ selected_category_id |-> primary_id,
          confidence_score     |-> best_score,
          reasoning            |-> "Low confidence match (score: " \o format2f(best_score)
                                     \o "). Defaulting to primary category (most recent post)",
          category_data        |-> primary_cat ]

\* "if recommended_id is not None" for "if recommended_id"
generator_low_confidence_result_not_none(analysis_json, categories, best_score) ==
    LET recommendation == Get(Get(analysis_json, "analysis_metadata", <<>>),
                              "recommended_category_for_generation", <<>>)
        recommended_id == Get(recommendation, "category_id", None)
    IN  IF recommended_id # None
        THEN [ selected_category_id |-> recommended_id,
               confidence_score     |-> best_score,
               reasoning            |-> "Low confidence match (score: " \o format2f(best_score)
                                          \o "). Using recommended: "
                                          \o Get(recommendation, "reasoning", "Most recent post style"),
               category_data        |-> find_category(categories, recommended_id),
               selection_method     |-> "fallback_to_recommendation" ]
        ELSE LET primary_id  == Get(Get(analysis_json, "analysis_metadata", <<>>),
                                    "primary_category", None)
                 primary_cat == find_category(categories, primary_id)
             IN  [ selected_category_id |-> primary_id,
                   confidence_score     |-> best_score,
                   reasoning            |-> "Low confidence match (score: " \o format2f(best_score)
                                              \o "). Defaulting to primary category (most recent post)",
                   category_data        |-> primary_cat,
                   selection_method     |-> "fallback_to_primary" ]

\* if best_score < 0.3, in services/generator.py
generator_low_confidence_result(analysis_json, categories, best_score) ==
    LET recommendation == Get(Get(analysis_json, "analysis_metadata", <<>>),
                              "recommended_category_for_generation", <<>>)
        recommended_id == Get(recommendation, "category_id", None)
    IN  IF Truthy(recommended_id)
        THEN [ selected_category_id |-> recommended_id,
               confidence_score     |-> best_score,
               reasoning            |-> "Low confidence match (score: " \o format2f(best_score)
                                          \o "). Using recommended: "
                                          \o Get(recommendation, "reasoning", "Most recent post style"),
               category_data        |-> find_category(categories, recommended_id),
               selection_method     |-> "fallback_to_recommendation" ]
        ELSE LET primary_id  == Get(Get(analysis_json, "analysis_metadata", <<>>),
                                    "primary_category", None)
                 primary_cat == find_category(categories, primary_id)
             IN  [ selected_category_id |-> primary_id,
                   confidence_score     |-> best_score,
                   reasoning            |-> "Low confidence match (score: " \o format2f(best_score)
                                              \o "). Defaulting to primary category (most recent post)",
                   category_data        |-> primary_cat,
                   selection_method     |-> "fallback_to_primary" ]

\* the three scores of the winner, each rounded to two decimals
scores_breakdown(best) ==
    LET rounded == [ i \in 2..4 |-> round2(best[i]) ]
    IN  [ keyword_score   |-> rounded[3],
          indicator_score |-> rounded[4],
          final_score     |-> rounded[2] ]

\* the clauses of the reasoning of a confident match
reasoning_parts(matched, active_indicators, best_ind_score, category_name) ==
    (IF matched # <<>>
     THEN << "Detected keywords: " \o str_join(", ", Take(matched, 5)) >>
     ELSE <<>>)
    \o (IF FLt(FZero, best_ind_score) /\ active_indicators # <<>>
        THEN << "Content indicators: " \o str_join(", ", Take(active_indicators, 3)) >>
        ELSE <<>>)
    \o << "High match with '" \o category_name \o "' category" >>

\* the return of a confident match whose category data was found
confident_return(best, selected_cat, breakdown, parts) ==
    [ selected_category_id |-> best[1],
      confidence_score     |-> breakdown.final_score,
      reasoning            |-> str_join(". ", parts) \o ".",
      category_data        |-> selected_cat,
      scores_breakdown     |-> breakdown ]

\* the confident match: find the category data, build the reasoning, return
confident_result(categories, selection_logic, user_keywords, user_indicators, best) ==
    LET selected_cat == find_category(categories, best[1])
    IN  \* selected_cat.get('category_name', 'unknown') with selected_cat None
        IF IsNone(selected_cat) THEN Raised("AttributeError")
        ELSE Returned(confident_return(
                 best, selected_cat, scores_breakdown(best),
                 reasoning_parts(
                     matched_keywords(user_keywords, Get(selection_logic[best[1]], "keywords", <<>>)),
                     SelectSeq(IndicatorKeys, LAMBDA k : user_indicators[k]),
                     best[4],
                     Get(selected_cat, "category_name", "unknown"))))

\* selector_data['available_categories'] or, in a loop that runs at least
\* once, selector_data['selection_logic'] is a missing key
scoring_raises(selector_data) ==
    \/ "available_categories" \notin DOMAIN selector_data
    \/ /\ selector_data["available_categories"] # <<>>
       /\ "selection_logic" \notin DOMAIN selector_data

\* if not analysis_json or 'generation_category_selector' not in analysis_json
no_selector(analysis_json) ==
    \/ IsNone(analysis_json)
    \/ DOMAIN analysis_json = {}
    \/ "generation_category_selector" \notin DOMAIN analysis_json

\* after the sort: the threshold on the best entry, then the fallback or the
\* confident match
best_match_result(analysis_json, categories, selection_logic, user_keywords, user_indicators, best) ==
    IF FLt(best[2], min_threshold)
    THEN Returned(low_confidence_result(analysis_json, categories, best[2]))
    ELSE confident_result(categories, selection_logic, user_keywords, user_indicators, best)

\* after the scoring loop
scored_result(analysis_json, categories, selection_logic, user_keywords, user_indicators, category_scores) ==
    IF category_scores = <<>>
    THEN Returned(primary_fallback_result(analysis_json, categories))
    ELSE best_match_result(analysis_json, categories, selection_logic,
                           user_keywords, user_indicators,
                           sort_by_score_desc(category_scores)[1])

\* the scoring loop and what follows it
scoring_result(analysis_json, selector_data, categories, user_keywords, user_indicators) ==
    IF scoring_raises(selector_data) THEN Raised("KeyError")
    ELSE scored_result(analysis_json, categories,
                       Get(selector_data, "selection_logic", <<>>),
                       user_keywords, user_indicators,
                       score_categories(selector_data["available_categories"],
                                        Get(selector_data, "selection_logic", <<>>),
                                        user_keywords, user_indicators))

\* the scoring pass started before the check of categories
select_category_scoring_first(user_text, analysis_json) ==
    IF no_selector(analysis_json) THEN Returned(no_selector_result)
    ELSE IF scoring_raises(analysis_json["generation_category_selector"]) THEN Raised("KeyError")
    ELSE IF Get(analysis_json, "categories", <<>>) = <<>> THEN Returned(no_categories_result)
    ELSE scoring_result(analysis_json,
                        analysis_json["generation_category_selector"],
                        Get(analysis_json, "categories", <<>>),
                        Keywords(user_text), Indicators(user_text))

\* instagram-scraper/category_selector.py
select_category_for_generation(user_text, analysis_json) ==
    IF no_selector(analysis_json) THEN Returned(no_selector_result)
    ELSE IF Get(analysis_json, "categories", <<>>) = <<>> THEN Returned(no_categories_result)
    ELSE scoring_result(analysis_json,
                        analysis_json["generation_category_selector"],
                        Get(analysis_json, "categories", <<>>),
                        Keywords(user_text), Indicators(user_text))

\* the threshold of one copy made inclusive: best_score <= 0.3
generator_best_match_result_inclusive(analysis_json, categories, selection_logic, user_keywords, user_indicators, best) ==
    IF FLe(best[2], min_threshold)
    THEN Returned(generator_low_confidence_result(analysis_json, categories, best[2]))
    ELSE confident_result(categories, selection_logic, user_keywords, user_indicators, best)

\* services/generator.py: the same steps, with the fallback of that copy
generator_best_match_result(analysis_json, categories, selection_logic, user_keywords, user_indicators, best) ==
    IF FLt(best[2], min_threshold)
    THEN Returned(generator_low_confidence_result(analysis_json, categories, best[2]))
    ELSE confident_result(categories, selection_logic, user_keywords, user_indicators, best)

generator_scored_result(analysis_json, categories, selection_logic, user_keywords, user_indicators, category_scores) ==
    IF category_scores = <<>>
    THEN Returned(primary_fallback_result(analysis_json, categories))
    ELSE generator_best_match_result(analysis_json, categories, selection_logic,
                                     user_keywords, user_indicators,
                                     sort_by_score_desc(category_scores)[1])

generator_scoring_result(analysis_json, selector_data, categories, user_keywords, user_indicators) ==
    IF scoring_raises(selector_data) THEN Raised("KeyError")
    ELSE generator_scored_result(analysis_json, categories,
                                 Get(selector_data, "selection_logic", <<>>),
                                 user_keywords, user_indicators,
                                 score_categories(selector_data["available_categories"],
                                                  Get(selector_data, "selection_logic", <<>>),
                                                  user_keywords, user_indicators))

generator_select_category_for_generation(user_text, analysis_json) ==
    IF no_selector(analysis_json) THEN Returned(no_selector_result)
    ELSE IF Get(analysis_json, "categories", <<>>) = <<>> THEN Returned(no_categories_result)
    ELSE generator_scoring_result(analysis_json,
                                  analysis_json["generation_category_selector"],
                                  Get(analysis_json, "categories", <<>>),
                                  Keywords(user_text), Indicators(user_text))

(***************************************************************************)
(* The analysis bundles a call can be given: every key may be missing.     *)
(***************************************************************************)
Opt(S) == { <<>> } \cup { <<v>> : v \in S }
Field(k, opt) == IF Len(opt) = 0 THEN <<>> ELSE (k :> opt[1])

AvailableChoices == SeqsUpTo(CategoryIds, MaxAvail)

LogicMaps == UNION { [S -> LogicChoices] : S \in SUBSET CategoryIds }

Selectors ==
    { Field("available_categories", a) @@ Field("selection_logic", l) :
        a \in Opt(AvailableChoices), l \in Opt(LogicMaps) }

CategoryRecords ==
    { [ category_id |-> "hiring_post", category_name |-> "Hiring" ],
      [ category_id |-> "story_post" ],
      [ category_name |-> "Untitled" ] }

\* a record is identified by its category_id: no record occurs twice
CategoryLists == Injective(SeqsUpTo(CategoryRecords, MaxCats))

Recommendations ==
    { [ category_id |-> "story_post", reasoning |-> "Matches the latest post" ],
      [ category_id |-> "" ] }

Metadatas ==
    { Field("primary_category", p) @@ Field("recommended_category_for_generation", r) :
        p \in Opt(CategoryIds), r \in Opt(Recommendations) }

AnalysisBundles ==
    { NoneObject } \cup
    { Field("generation_category_selector", s) @@ Field("categories", c)
          @@ Field("analysis_metadata", m) :
        s \in Opt(Selectors), c \in Opt(CategoryLists), m \in Opt(Metadatas) }

\* the bundles of the worked examples: well-formed, with one or two categories
ScenarioBundles ==
    { [ generation_category_selector |->
            [ available_categories |-> a, selection_logic |-> l ],
        categories |-> c,
        analysis_metadata |-> [ primary_category |-> p ] ] :
        a \in { << "hiring_post" >>, << "hiring_post", "story_post" >>,
                << "story_post", "hiring_post" >> },
        l \in [{ "hiring_post" } -> ScenarioLogicChoices]
               \cup [CategoryIds -> ScenarioLogicChoices],
        c \in { << [ category_id |-> "hiring_post", category_name |-> "Hiring" ] >>,
                << [ category_id |-> "hiring_post", category_name |-> "Hiring" ],
                   [ category_id |-> "story_post", category_name |-> "Stories" ] >> },
        p \in CategoryIds }

(***************************************************************************)
(* The state: the arguments of a call and what each copy made of them;     *)
(* a call of one of the helper functions; the calls that run concurrently  *)
(* on one bundle.                                                          *)
(***************************************************************************)
VARIABLES user_text, analysis_json, result, generator_result, helper, threads
VARIABLES phase2, session, scrape, download

vars == << user_text, analysis_json, result, generator_result, helper, threads,
          phase2, session, scrape, download >>

\* the variables of the category selection, and those of the other parts
selection_vars == << user_text, analysis_json, result, generator_result, helper, threads >>
Idle == <<>>

NotCalled == [ outcome |-> "not_called" ]

Init ==
    /\ user_text \in Texts
    /\ analysis_json \in AnalysisBundles
    /\ result = NotCalled
    /\ generator_result = NotCalled
    /\ helper = NotCalled
    /\ threads = <<>>
    /\ phase2 = Idle /\ session = Idle /\ scrape = Idle /\ download = Idle

\* the worked examples
ScenarioInit ==
    /\ user_text \in ScenarioTexts
    /\ analysis_json \in ScenarioBundles
    /\ result = NotCalled
    /\ generator_result = NotCalled
    /\ helper = NotCalled
    /\ threads = <<>>
    /\ phase2 = Idle /\ session = Idle /\ scrape = Idle /\ download = Idle

\* category_selector.select_category_for_generation(user_text, analysis_json)
SelectCategory ==
    /\ result = NotCalled
    /\ result' = select_category_for_generation(user_text, analysis_json)
    /\ UNCHANGED << user_text, analysis_json, generator_result, helper, threads,
                    phase2, session, scrape, download >>

\* services.generator.select_category_for_generation(user_text, analysis_json)
GeneratorSelectCategory ==
    /\ generator_result = NotCalled
    /\ generator_result' = generator_select_category_for_generation(user_text, analysis_json)
    /\ UNCHANGED << user_text, analysis_json, result, helper, threads,
                    phase2, session, scrape, download >>

Next == SelectCategory \/ GeneratorSelectCategory

Spec == Init /\ [][Next]_vars

ScenarioSpec == ScenarioInit /\ [][Next]_vars

(***************************************************************************)
(* The helper functions called on their own.  helper holds the function    *)
(* and its arguments, and after the call the value returned.               *)
(***************************************************************************)
MaxKeywords == 3
MaxCategoryTerms == 2

HelperTexts ==
    { str_join(" ", ws) :
        ws \in SeqsUpTo({ "Join", "join!", "the", "dismay", "May", "x3/15", "3/15", "story?" },
                        MaxWords) }
    \cup { "We are hiring a volunteer coordinator", "Apply by March 5th!",
            "Don't miss our well-being guide", "Room 123/15", "12/25/2024 reminder" }

HelperCall(fn, args) == [ outcome |-> "not_called", fn |-> fn, args |-> args ]

HelperCalls ==
    { HelperCall("extract_keywords", << t >>) : t \in HelperTexts }
    \cup { HelperCall("detect_content_indicators", << t >>) : t \in HelperTexts }
    \cup { HelperCall("calculate_keyword_score", << u, c >>) :
              u \in SeqsUpTo({ "join", "joining", "other" }, MaxKeywords),
              c \in SeqsUpTo({ "join", "joining", "volunteer" }, MaxCategoryTerms) }
    \cup { HelperCall("calculate_indicator_score", << d, l >>) :
              d \in [{ "has_cta", "has_date", "has_narrative" } -> BOOLEAN]
                     \cup [{ "has_cta" } -> BOOLEAN] \cup { <<>> },
              l \in SeqsUpTo({ "call to action", "Deadline", "Volunteer Stories", "urgent" },
                             MaxCategoryTerms) }

HelperInit ==
    /\ user_text = ""
    /\ analysis_json = NoneObject
    /\ result = NotCalled
    /\ generator_result = NotCalled
    /\ helper \in HelperCalls
    /\ threads = <<>>
    /\ phase2 = Idle /\ session = Idle /\ scrape = Idle /\ download = Idle

HelperReturn(call, value) ==
    [ outcome |-> "returned", fn |-> call.fn, args |-> call.args, value |-> value ]

ExtractKeywords ==
    /\ helper.outcome = "not_called"
    /\ helper.fn = "extract_keywords"
    /\ helper' = HelperReturn(helper, extract_keywords(helper.args[1]))
    /\ UNCHANGED << user_text, analysis_json, result, generator_result, threads,
                    phase2, session, scrape, download >>

DetectContentIndicators ==
    /\ helper.outcome = "not_called"
    /\ helper.fn = "detect_content_indicators"
    /\ helper' = HelperReturn(helper, detect_content_indicators(helper.args[1]))
    /\ UNCHANGED << user_text, analysis_json, result, generator_result, threads,
                    phase2, session, scrape, download >>

CalculateKeywordScore ==
    /\ helper.outcome = "not_called"
    /\ helper.fn = "calculate_keyword_score"
    /\ helper' = HelperReturn(helper, calculate_keyword_score(helper.args[1], helper.args[2]))
    /\ UNCHANGED << user_text, analysis_json, result, generator_result, threads,
                    phase2, session, scrape, download >>

CalculateIndicatorScore ==
    /\ helper.outcome = "not_called"
    /\ helper.fn = "calculate_indicator_score"
    /\ helper' = HelperReturn(helper, calculate_indicator_score(helper.args[1], helper.args[2]))
    /\ UNCHANGED << user_text, analysis_json, result, generator_result, threads,
                    phase2, session, scrape, download >>

HelperNext ==
    \/ ExtractKeywords
    \/ DetectContentIndicators
    \/ CalculateKeywordScore
    \/ CalculateIndicatorScore

HelperSpec == HelperInit /\ [][HelperNext]_vars

(***************************************************************************)
(* Calls of select_category_for_generation that run concurrently on one    *)
(* bundle, as request-handling threads do.  analysis_json is the shared    *)
(* bundle; threads[t] holds the locals of call t: where it is, its         *)
(* user_text, the position of the scoring loop in available_categories,    *)
(* its category_scores list and what it returned.  user_keywords and       *)
(* user_indicators are functions of user_text alone.  A step of a thread   *)
(* is atomic; steps of different threads interleave freely.                *)
(***************************************************************************)
NumThreads == 2

ConcurrentInit ==
    /\ user_text = ""
    /\ analysis_json \in ScenarioBundles \cup
           { NoneObject,
             [ generation_category_selector |-> [ available_categories |-> << "hiring_post" >> ],
               categories |-> << [ category_id |-> "hiring_post", category_name |-> "Hiring" ] >> ] }
    /\ result = NotCalled
    /\ generator_result = NotCalled
    /\ helper = NotCalled
    /\ phase2 = Idle /\ session = Idle /\ scrape = Idle /\ download = Idle
    /\ threads \in [1..NumThreads ->
                      { [ pc |-> "start", user_text |-> t, i |-> 0,
                          category_scores |-> <<>>, result |-> NotCalled ] :
                        t \in ScenarioTexts }]

\* return or raise: the call is over
thread_done(locals, outcome) == [ locals EXCEPT !.pc = "done", !.result = outcome ]

\* the guards, extract_keywords, detect_content_indicators, category_scores = []
\* and the evaluation of selector_data['available_categories']
ThreadBegin(t) ==
    /\ threads[t].pc = "start"
    /\ threads' = [ threads EXCEPT ![t] =
           IF no_selector(analysis_json)
           THEN thread_done(@, Returned(no_selector_result))
           ELSE IF Get(analysis_json, "categories", <<>>) = <<>>
           THEN thread_done(@, Returned(no_categories_result))
           ELSE IF "available_categories" \notin DOMAIN analysis_json["generation_category_selector"]
           THEN thread_done(@, Raised("KeyError"))
           ELSE [ @ EXCEPT !.pc = "loop", !.i = 1 ] ]
    /\ UNCHANGED << user_text, analysis_json, result, generator_result, helper,
                    phase2, session, scrape, download >>

\* one list for all the calls, as a module-level category_scores would be
append_score_shared_list(ths, t, entry) ==
    [ u \in DOMAIN ths |->
        [ ths[u] EXCEPT !.category_scores = Append(@, entry),
                        !.i = IF u = t THEN @ + 1 ELSE @ ] ]

\* category_scores.append(...) on the list of call t, and on to the next id
append_score(ths, t, entry) ==
    [ ths EXCEPT ![t].category_scores = Append(@, entry), ![t].i = @ + 1 ]

\* one pass of the scoring loop
ThreadScore(t) ==
    /\ threads[t].pc = "loop"
    /\ threads[t].i <= Len(analysis_json["generation_category_selector"]["available_categories"])
    /\ LET selector_data == analysis_json["generation_category_selector"]
           category_id   == selector_data["available_categories"][threads[t].i]
       IN  threads' =
             IF "selection_logic" \notin DOMAIN selector_data
             THEN [ threads EXCEPT ![t] = thread_done(@, Raised("KeyError")) ]
             ELSE IF category_id \notin DOMAIN selector_data["selection_logic"]
             THEN [ threads EXCEPT ![t].i = @ + 1 ]
             ELSE append_score(threads, t,
                               << category_id >> \o
                               CategoryScore(selector_data["selection_logic"][category_id],
                                             Keywords(threads[t].user_text),
                                             Indicators(threads[t].user_text)))
    /\ UNCHANGED << user_text, analysis_json, result, generator_result, helper,
                    phase2, session, scrape, download >>

\* after the loop: the fallback, or the sort of the call's own list, the
\* threshold and the return
ThreadFinish(t) ==
    /\ threads[t].pc = "loop"
    /\ threads[t].i > Len(analysis_json["generation_category_selector"]["available_categories"])
    /\ threads' = [ threads EXCEPT ![t] =
           thread_done(@, scored_result(
               analysis_json,
               Get(analysis_json, "categories", <<>>),
               Get(analysis_json["generation_category_selector"], "selection_logic", <<>>),
               Keywords(threads[t].user_text),
               Indicators(threads[t].user_text),
               threads[t].category_scores)) ]
    /\ UNCHANGED << user_text, analysis_json, result, generator_result, helper,
                    phase2, session, scrape, download >>

ConcurrentNext ==
    \/ \E t \in DOMAIN threads : ThreadBegin(t)
    \/ \E t \in DOMAIN threads : ThreadScore(t)
    \/ \E t \in DOMAIN threads : ThreadFinish(t)

ConcurrentSpec == ConcurrentInit /\ [][ConcurrentNext]_vars

(***************************************************************************)
(* A selector built from detected categories, put into a bundle with those *)
(* categories, and a selection made over it.                               *)
(***************************************************************************)
BuilderInit ==
    /\ user_text \in BuilderTexts
    /\ analysis_json = NoneObject
    /\ result = NotCalled
    /\ generator_result = NotCalled
    /\ helper \in { HelperCall("build_category_selector", << d >>) :
                      d \in { [ categories |-> c ] :
                                c \in Injective(SeqsUpTo(DetectedCategories, MaxCats)) }
                            \cup { [ universal_elements |-> <<>> ] } }
    /\ threads = <<>>
    /\ phase2 = Idle /\ session = Idle /\ scrape = Idle /\ download = Idle

BuildCategorySelector ==
    /\ helper.outcome = "not_called"
    /\ helper.fn = "build_category_selector"
    /\ \E selector \in build_category_selector(helper.args[1]) :
          /\ helper' = HelperReturn(helper, selector)
          /\ analysis_json' = [ generation_category_selector |-> selector,
                                categories |-> Get(helper.args[1], "categories", <<>>) ]
    /\ UNCHANGED << user_text, result, generator_result, threads,
                    phase2, session, scrape, download >>

BuilderNext ==
    \/ BuildCategorySelector
    \/ helper.outcome = "returned" /\ SelectCategory
    \/ helper.outcome = "returned" /\ GeneratorSelectCategory

BuilderSpec == BuilderInit /\ [][BuilderNext]_vars

(***************************************************************************)
(* analyze_posts_with_categories, phase 2 and phase 3: one task per        *)
(* detected category on a pool of at most max_workers threads, the results *)
(* collected as the tasks complete, then assemble_final_json.              *)
(***************************************************************************)
MaxDetected == 4

\* the categories phase 1 detected, each with one post assigned
PhaseCategory(i) ==
    [ category_id |-> "category_" \o ToString(i),
      category_name |-> "Category " \o ToString(i),
      post_assignments |-> << i >> ]

\* ThreadPoolExecutor(max_workers=min(num_categories, 3))
max_workers(num_categories) == IF num_categories < 3 THEN num_categories ELSE 3

\* what analyze_category_with_gemini returns for the category: the analysis
\* with the metadata of the category written into it
category_analysis(category_metadata, posts) ==
    [ category_id |-> category_metadata.category_id,
      category_name |-> category_metadata.category_name,
      posts_included |-> Get(category_metadata, "post_assignments", <<>>),
      post_count |-> Len(posts) ]

\* str(e) of the exception the task raises when no image could be downloaded
category_error(category_metadata) ==
    "No images could be downloaded for category '" \o category_metadata.category_name \o "'"

\* [posts[i-1] for i in category_metadata['post_assignments']]
filter_posts_by_category(posts, category_metadata) ==
    [ k \in 1..Len(category_metadata.post_assignments) |->
        posts[category_metadata.post_assignments[k]] ]

\* the body of the try in the collecting loop, without the record kept for a
\* failed task
collect_dropping_failed(category_analyses, future) ==
    IF future.outcome.outcome = "returned"
    THEN Append(category_analyses, future.outcome.value)
    ELSE category_analyses

\* the body of the collecting loop for a completed future
collect(category_analyses, future) ==
    IF future.outcome.outcome = "returned"
    THEN Append(category_analyses, future.outcome.value)
    ELSE Append(category_analyses,
                [ category_name |-> future.category_name,
                  error |-> future.outcome.exception,
                  note |-> "Analysis failed for this category" ])

\* the category JSON assemble_final_json builds from one analysis
category_json(cat_analysis) ==
    [ category_info |->
        [ category_id |-> Get(cat_analysis, "category_id", "unknown"),
          category_name |-> Get(cat_analysis, "category_name", "Unknown"),
          posts_included |-> Get(cat_analysis, "posts_included", <<>>),
          post_count |-> Get(cat_analysis, "post_count", 0) ] ]

\* the loop of assemble_final_json over the first n analyses; a later
\* analysis with the same category_id replaces the earlier entry
RECURSIVE category_jsons_after(_, _)
category_jsons_after(category_analyses, n) ==
    IF n = 0 THEN <<>>
    ELSE (Get(category_analyses[n], "category_id", "unknown")
              :> category_json(category_analyses[n]))
         @@ category_jsons_after(category_analyses, n - 1)

assemble_final_json(category_data, category_analyses) ==
    category_jsons_after(category_analyses, Len(category_analyses))

PhaseInit ==
    /\ user_text = "" /\ analysis_json = NoneObject
    /\ result = NotCalled /\ generator_result = NotCalled
    /\ helper = NotCalled /\ threads = <<>>
    /\ session = Idle /\ scrape = Idle /\ download = Idle
    /\ \E n \in 1..MaxDetected :
          phase2 = [ pc |-> "submit",
                     posts |-> [ i \in 1..n |-> [ post_number |-> i ] ],
                     category_data |-> [ categories |-> [ i \in 1..n |-> PhaseCategory(i) ] ],
                     futures |-> <<>>,
                     yielded |-> {},
                     category_analyses |-> <<>>,
                     category_jsons |-> NoneObject ]

NumCategories == Len(phase2.category_data.categories)
FuturesIn(state) == { i \in 1..Len(phase2.futures) : phase2.futures[i].state = state }

\* the for loop that submits one task per category
Submit ==
    /\ phase2.pc = "submit"
    /\ LET category_metadata == phase2.category_data.categories[Len(phase2.futures) + 1]
           future == [ state |-> "pending",
                       category_name |-> category_metadata.category_name,
                       category_posts |-> filter_posts_by_category(phase2.posts, category_metadata),
                       category_metadata |-> category_metadata,
                       outcome |-> NotCalled ]
       IN  phase2' = [ phase2 EXCEPT !.futures = Append(@, future),
                                     !.pc = IF Len(phase2.futures) + 1 = NumCategories
                                            THEN "collect" ELSE "submit" ]
    /\ UNCHANGED << selection_vars, session, scrape, download >>

\* a free thread of the pool takes the task that waits longest
TaskStart(i) ==
    /\ i \in FuturesIn("pending")
    /\ \A j \in FuturesIn("pending") : i <= j
    /\ Cardinality(FuturesIn("running")) < max_workers(NumCategories)
    /\ phase2' = [ phase2 EXCEPT !.futures[i].state = "running" ]
    /\ UNCHANGED << selection_vars, session, scrape, download >>

\* analyze_category_with_gemini returns
TaskReturn(i) ==
    /\ i \in FuturesIn("running")
    /\ phase2' = [ phase2 EXCEPT
                     !.futures[i].state = "finished",
                     !.futures[i].outcome =
                         Returned(category_analysis(phase2.futures[i].category_metadata,
                                                    phase2.futures[i].category_posts)) ]
    /\ UNCHANGED << selection_vars, session, scrape, download >>

\* analyze_category_with_gemini raises
TaskRaise(i) ==
    /\ i \in FuturesIn("running")
    /\ phase2' = [ phase2 EXCEPT
                     !.futures[i].state = "finished",
                     !.futures[i].outcome =
                         Raised(category_error(phase2.futures[i].category_metadata)) ]
    /\ UNCHANGED << selection_vars, session, scrape, download >>

\* as_completed yields a finished future it has not yielded yet; the loop
\* and the with block end after the last one
Collect(i) ==
    /\ phase2.pc = "collect"
    /\ i \in FuturesIn("finished") \ phase2.yielded
    /\ phase2' = [ phase2 EXCEPT
                     !.yielded = @ \cup { i },
                     !.category_analyses = collect(@, phase2.futures[i]),
                     !.pc = IF phase2.yielded \cup { i } = 1..NumCategories
                            THEN "assemble" ELSE "collect" ]
    /\ UNCHANGED << selection_vars, session, scrape, download >>

Assemble ==
    /\ phase2.pc = "assemble"
    /\ phase2' = [ phase2 EXCEPT
                     !.category_jsons = assemble_final_json(phase2.category_data,
                                                            phase2.category_analyses),
                     !.pc = "done" ]
    /\ UNCHANGED << selection_vars, session, scrape, download >>

PhaseNext ==
    \/ Submit
    \/ \E i \in 1..MaxDetected : TaskStart(i)
    \/ \E i \in 1..MaxDetected : TaskReturn(i)
    \/ \E i \in 1..MaxDetected : TaskRaise(i)
    \/ \E i \in 1..MaxDetected : Collect(i)
    \/ Assemble

PhaseSpec == PhaseInit /\ [][PhaseNext]_vars

(***************************************************************************)
(* download_image_as_base64 and compress_image                             *)
(***************************************************************************)
MaxRetries == 3

Base64Alphabet == "ABCDEFGHIJKLMNOPQRSTUVWXYZabcdefghijklmnopqrstuvwxyz0123456789+/"

\* base64.b64encode(data).decode('utf-8'), data a sequence of bytes
RECURSIVE b64encode(_)
b64encode(data) ==
    IF data = <<>> THEN ""
    ELSE LET b2 == IF Len(data) >= 2 THEN data[2] ELSE 0
             b3 == IF Len(data) >= 3 THEN data[3] ELSE 0
             n  == data[1] * 65536 + b2 * 256 + b3
         IN  CharAt(Base64Alphabet, (n \div 262144) + 1)
             \o CharAt(Base64Alphabet, ((n \div 4096) % 64) + 1)
             \o (IF Len(data) >= 2 THEN CharAt(Base64Alphabet, ((n \div 64) % 64) + 1) ELSE "=")
             \o (IF Len(data) >= 3 THEN CharAt(Base64Alphabet, (n % 64) + 1) ELSE "=")
             \o (IF Len(data) > 3 THEN b64encode(SubSeq(data, 4, Len(data))) ELSE "")

\* the bodies a 200 response carries: the first bytes of a PNG, which the
\* imaging library re-encodes as a JPEG, and the first bytes of an HTML page,
\* which it cannot open
ImageContents == { << 137, 80, 78, 71 >>, << 60, 104 >> }
SavedAsJpeg == (<< 137, 80, 78, 71 >> :> << 255, 216, 255 >>)

\* compress_image: the JPEG, or the data as it came when the image cannot
\* be opened
compress_image(image_data) ==
    IF image_data \in DOMAIN SavedAsJpeg
    THEN << SavedAsJpeg[image_data], "image/jpeg" >>
    ELSE << image_data, "image/jpeg" >>

\* the classes of the exceptions requests.get raises, each with its base
ExceptionBase ==
    ("ConnectionError" :> "RequestException") @@ ("Timeout" :> "RequestException")
    @@ ("RequestException" :> "Exception") @@ ("ValueError" :> "Exception")
    @@ ("Exception" :> "BaseException")

RECURSIVE IsInstance(_, _)
IsInstance(class, base) ==
    \/ class = base
    \/ class \in DOMAIN ExceptionBase /\ IsInstance(ExceptionBase[class], base)

\* what one requests.get(url, timeout=30) can come to
HttpOutcomes ==
    { [ raised |-> class ] : class \in { "ConnectionError", "Timeout", "ValueError" } }
    \cup { [ status_code |-> 200, content |-> c ] : c \in ImageContents }
    \cup { [ status_code |-> code, content |-> << 60, 104 >> ] : code \in { 404, 503 } }

\* only the handler for requests.exceptions.RequestException
download_step_without_last_handler(d, outcome) ==
    LET asked == [ d EXCEPT !.outcomes = Append(@, outcome) ]
    IN  IF "raised" \notin DOMAIN outcome
        THEN IF outcome.status_code = 200
             THEN [ asked EXCEPT !.pc = "returned",
                                 !.value = << b64encode(compress_image(outcome.content)[1]),
                                              compress_image(outcome.content)[2] >> ]
             ELSE [ asked EXCEPT !.attempt = @ + 1 ]
        ELSE IF IsInstance(outcome.raised, "RequestException")
        THEN IF d.attempt < d.max_retries - 1
             THEN [ asked EXCEPT !.sleeps = Append(@, (d.attempt + 1) * 2), !.attempt = @ + 1 ]
             ELSE [ asked EXCEPT !.attempt = @ + 1 ]
        ELSE [ asked EXCEPT !.pc = "raised", !.value = outcome.raised ]

\* the body of the for loop for one attempt, d the call and outcome what
\* requests.get came to
download_step(d, outcome) ==
    LET asked == [ d EXCEPT !.outcomes = Append(@, outcome) ]
    IN  IF "raised" \notin DOMAIN outcome
        THEN IF outcome.status_code = 200
             THEN [ asked EXCEPT !.pc = "returned",
                                 !.value = << b64encode(compress_image(outcome.content)[1]),
                                              compress_image(outcome.content)[2] >> ]
             ELSE [ asked EXCEPT !.attempt = @ + 1 ]
        ELSE IF IsInstance(outcome.raised, "RequestException")
        THEN IF d.attempt < d.max_retries - 1
             THEN [ asked EXCEPT !.sleeps = Append(@, (d.attempt + 1) * 2), !.attempt = @ + 1 ]
             ELSE [ asked EXCEPT !.attempt = @ + 1 ]
        ELSE IF IsInstance(outcome.raised, "Exception")
        THEN [ asked EXCEPT !.pc = "returned", !.value = << None, None >> ]
        ELSE [ asked EXCEPT !.pc = "raised", !.value = outcome.raised ]

DownloadInit ==
    /\ user_text = "" /\ analysis_json = NoneObject
    /\ result = NotCalled /\ generator_result = NotCalled
    /\ helper = NotCalled /\ threads = <<>>
    /\ phase2 = Idle /\ session = Idle /\ scrape = Idle
    /\ \E n \in 0..MaxRetries :
          download = [ pc |-> "loop", max_retries |-> n, attempt |-> 0,
                       outcomes |-> <<>>, sleeps |-> <<>>, value |-> NoneObject ]

\* one pass through the loop: the request is answered with status 200
DownloadOk ==
    /\ download.pc = "loop" /\ download.attempt < download.max_retries
    /\ \E outcome \in HttpOutcomes :
          /\ "raised" \notin DOMAIN outcome /\ outcome.status_code = 200
          /\ download' = download_step(download, outcome)
    /\ UNCHANGED << selection_vars, phase2, session, scrape >>

\* one pass through the loop: the request is answered with another status
DownloadOtherStatus ==
    /\ download.pc = "loop" /\ download.attempt < download.max_retries
    /\ \E outcome \in HttpOutcomes :
          /\ "raised" \notin DOMAIN outcome /\ outcome.status_code # 200
          /\ download' = download_step(download, outcome)
    /\ UNCHANGED << selection_vars, phase2, session, scrape >>

\* one pass through the loop: the request raises
DownloadRaises ==
    /\ download.pc = "loop" /\ download.attempt < download.max_retries
    /\ \E outcome \in HttpOutcomes :
          /\ "raised" \in DOMAIN outcome
          /\ download' = download_step(download, outcome)
    /\ UNCHANGED << selection_vars, phase2, session, scrape >>

\* the loop has run out: return None, None
DownloadGivesUp ==
    /\ download.pc = "loop" /\ download.attempt >= download.max_retries
    /\ download' = [ download EXCEPT !.pc = "returned", !.value = << None, None >> ]
    /\ UNCHANGED << selection_vars, phase2, session, scrape >>

DownloadNext == DownloadOk \/ DownloadOtherStatus \/ DownloadRaises \/ DownloadGivesUp

DownloadSpec == DownloadInit /\ [][DownloadNext]_vars

(***************************************************************************)
(* app.py: the session of the canvas, with /upload, /process and /reset    *)
(***************************************************************************)
\* s.strip()
RECURSIVE str_strip(_)
str_strip(s) ==
    IF s = "" THEN ""
    ELSE IF IsSpace(SubSeq(s, 1, 1)) THEN str_strip(SubSeq(s, 2, Len(s)))
    ELSE IF IsSpace(SubSeq(s, Len(s), Len(s))) THEN str_strip(SubSeq(s, 1, Len(s) - 1))
    ELSE s

\* the positions at which word begins in s, letters compared without case
FindAll(word, s) == { p \in 1..Len(s) : StartsAt(str_lower(s), p, str_lower(word)) }

\* the first position at or after p that holds no whitespace
RECURSIVE SkipSpace(_, _)
SkipSpace(s, p) == IF p <= Len(s) /\ IsSpace(CharAt(s, p)) THEN SkipSpace(s, p + 1) ELSE p

\* the first position at or after p that holds one of the characters of
\* stops, Len(s) + 1 when there is none
RECURSIVE FindStop(_, _, _)
FindStop(s, p, stops) ==
    IF p > Len(s) \/ CharIn(CharAt(s, p), stops) THEN p ELSE FindStop(s, p + 1, stops)

\* re.search(r'Instruction:\s*["\']([^"\']+)["\']', s, re.IGNORECASE): the
\* group of the leftmost match, None without a match
quoted_instruction(s) ==
    LET quotes == "\"'"
        open(p) == SkipSpace(s, p + Len("Instruction:"))
        close(p) == FindStop(s, open(p) + 1, quotes)
        matches == { p \in FindAll("Instruction:", s) :
                       /\ CharIn(CharAt(s, open(p)), quotes)
                       /\ close(p) <= Len(s)
                       /\ close(p) > open(p) + 1 }
    IN  IF matches = {} THEN None
        ELSE LET p == CHOOSE q \in matches : \A r \in matches : q <= r
             IN  SubSeq(s, open(p) + 1, close(p) - 1)

\* re.search(r'Instruction:\s*(.+?)(?:\.|$)', s, re.IGNORECASE) for a text of
\* one line: the group of the leftmost match, None without a match
plain_instruction(s) ==
    LET after(p) == p + Len("Instruction:")
        matches == { p \in FindAll("Instruction:", s) : after(p) <= Len(s) }
    IN  IF matches = {} THEN None
        ELSE LET p == CHOOSE q \in matches : \A r \in matches : q <= r
                 \* the whitespace gives back its last character when
                 \* nothing follows it
                 from == IF SkipSpace(s, after(p)) > Len(s) THEN Len(s)
                         ELSE SkipSpace(s, after(p))
             IN  SubSeq(s, from, FindStop(s, from + 1, ".") - 1)

\* re.sub(r'\s*Do not modify.*$', '', s, flags=re.IGNORECASE) for a text of
\* one line
without_do_not_modify(s) ==
    LET found == FindAll("Do not modify", s)
    IN  IF found = {} THEN s
        ELSE LET p == CHOOSE q \in found : \A r \in found : q <= r
                 \* the whitespace run that ends where the words begin
                 starts == { q \in 1..p : \A r \in q..(p - 1) : IsSpace(CharAt(s, r)) }
             IN  SubSeq(s, 1, (CHOOSE q \in starts : \A r \in starts : q <= r) - 1)

extract_user_prompt(full_prompt) ==
    IF quoted_instruction(full_prompt) # None
    THEN str_strip(quoted_instruction(full_prompt))
    ELSE IF plain_instruction(full_prompt) # None
    THEN str_strip(without_do_not_modify(str_strip(plain_instruction(full_prompt))))
    ELSE str_strip(full_prompt)

\* os.path.splitext(name)[1] for a name without a directory: from the last
\* dot on, unless only dots come before it
splitext_ext(name) ==
    LET dots == { p \in 1..Len(name) : CharAt(name, p) = "." }
        last == CHOOSE p \in dots : \A q \in dots : q <= p
    IN  IF dots = {} \/ \A q \in 1..(last - 1) : CharAt(name, q) = "." THEN ""
        ELSE SubSeq(name, last, Len(name))

\* werkzeug's secure_filename for an ASCII name without separators:
\* whitespace runs become "_", other characters outside [A-Za-z0-9_.-] go,
\* dots and underscores at the ends go
RECURSIVE strip_dots(_)
strip_dots(s) ==
    IF s = "" THEN ""
    ELSE IF CharIn(SubSeq(s, 1, 1), "._") THEN strip_dots(SubSeq(s, 2, Len(s)))
    ELSE IF CharIn(SubSeq(s, Len(s), Len(s)), "._") THEN strip_dots(SubSeq(s, 1, Len(s) - 1))
    ELSE s

RECURSIVE keep_safe(_)
keep_safe(s) ==
    IF s = "" THEN ""
    ELSE (IF IsWordChar(SubSeq(s, 1, 1)) \/ CharIn(SubSeq(s, 1, 1), ".-")
          THEN SubSeq(s, 1, 1) ELSE "")
         \o keep_safe(SubSeq(s, 2, Len(s)))

secure_filename(name) == strip_dots(keep_safe(str_join("_", str_split(name))))

allowed_extensions == { ".jpg", ".jpeg", ".png", ".webp" }

MaxRequests == 3

\* ImageEditor.calculate_cost and ImageGenerator.calculate_cost
edit_cost == FDivIntRaw(1, 100)
generation_cost == FDivIntRaw(1, 200)

UPLOAD_FOLDER == "uploads"

\* os.path.join(app.config['UPLOAD_FOLDER'], filename)
upload_path(filename) == UPLOAD_FOLDER \o "/" \o filename

\* the name made with the k-th uuid4 of the run
unique_name(prefix, k, ext) == prefix \o "_" \o ToString(k) \o ext

\* '.png' if 'png' in content_type else '.jpg' if 'jpeg' in content_type or
\* 'jpg' in content_type else '.webp'
downloaded_ext(content_type) ==
    IF Contains("png", content_type) THEN ".png"
    ELSE IF Contains("jpeg", content_type) \/ Contains("jpg", content_type) THEN ".jpg"
    ELSE ".webp"

\* s.replace(old, '')
RECURSIVE str_remove(_, _)
str_remove(s, old) ==
    IF s = "" THEN ""
    ELSE IF StartsAt(s, 1, old) THEN str_remove(SubSeq(s, Len(old) + 1, Len(s)), old)
    ELSE SubSeq(s, 1, 1) \o str_remove(SubSeq(s, 2, Len(s)), old)

\* persist_data_url_image: the extension mimetypes gives for the mime type
\* of the header
data_url_ext(data_url) ==
    LET header == SubSeq(data_url, 1, FindStop(data_url, 1, ",") - 1)
        mime   == IF Contains("data:", header)
                  THEN str_remove(SubSeq(header, 1, FindStop(header, 1, ";") - 1), "data:")
                  ELSE "image/png"
    IN  IF mime = "image/png" THEN ".png"
        ELSE IF mime = "image/jpeg" THEN ".jpg"
        ELSE IF mime = "image/webp" THEN ".webp"
        ELSE ".png"

\* is_data_url
is_data_url(value) == StartsAt(value, 1, "data:image/")

is_remote_url(value) == StartsAt(value, 1, "http://") \/ StartsAt(value, 1, "https://")

\* session.get(key), the value None when the key is not there
session_get(data, key) == IF key \in DOMAIN data THEN data[key] ELSE None

\* session[key] = value
session_set(data, key, value) == (key :> value) @@ data

\* the JSON values a prompt can be: a string, or a number written in digits
IsString(json) == json.type = "str"
JsonTruthy(json) == IF json.type = "str" THEN json.value # "" ELSE json.value # "0"

\* the answer of a handler: status, session and files afterwards, the
\* number of uuids drawn, and for /process what it did with which image
Answer(status, data, files, uuids, mode, input_image, cost) ==
    [ status |-> status, data |-> data, files |-> files, uuids |-> uuids,
      mode |-> mode, input_image |-> input_image, cost |-> cost ]

\* /upload; req is the file part of the request and whether file.save works
upload(data, files, uuids, req) ==
    IF ~req.has_image THEN Answer(400, data, files, uuids, None, None, FZero)
    ELSE IF req.filename = "" THEN Answer(400, data, files, uuids, None, None, FZero)
    ELSE IF str_lower(splitext_ext(req.filename)) \notin allowed_extensions
    THEN Answer(400, data, files, uuids, None, None, FZero)
    ELSE IF ~req.save_works THEN Answer(500, data, files, uuids, None, None, FZero)
    ELSE LET filename == secure_filename(req.filename)
             cleared  == session_set(session_set(session_set(<<>>,
                             "history", << [ type |-> "upload",
                                             message |-> "Uploaded " \o req.filename ] >>),
                             "current_image_path", upload_path(filename)),
                             "current_image_url", "/uploads/" \o filename)
         IN  Answer(200, cleared, files \cup { upload_path(filename) }, uuids, None, None, FZero)

\* lines 431-459 of /process: where the image is kept and shown;
\* << local_path, display_url, files, uuids >>
persist_image(image_url, files, uuids, req) ==
    IF is_data_url(image_url)
    THEN LET filename == unique_name("replicate_edit", uuids + 1, data_url_ext(image_url))
         IN  << upload_path(filename), "/uploads/" \o filename,
                files \cup { upload_path(filename) }, uuids + 1 >>
    ELSE IF is_remote_url(image_url)
    THEN IF req.download_works
         THEN LET filename == unique_name("generated", uuids + 1, downloaded_ext(req.content_type))
              IN  << upload_path(filename), "/uploads/" \o filename,
                     files \cup { upload_path(filename) }, uuids + 1 >>
         ELSE << None, image_url, files, uuids >>
    ELSE << None, image_url, files, uuids >>

\* /process; req holds the prompt of the request, the image URL the model
\* answers with (None when the call raises), and how the download goes
process(data, files, uuids, req) ==
    IF ~JsonTruthy(req.prompt) THEN Answer(400, data, files, uuids, None, None, FZero)
    ELSE
    LET current_image_path == session_get(data, "current_image_path")
        with_history == IF "history" \in DOMAIN data THEN data
                        ELSE session_set(data, "history", <<>>)
        with_cost    == IF "total_cost" \in DOMAIN with_history THEN with_history
                        ELSE session_set(with_history, "total_cost", FZero)
        input_image  == IF current_image_path # None /\ current_image_path \in files
                        THEN current_image_path ELSE None
        mode         == IF input_image # None THEN "edit" ELSE "generate"
        cost         == IF input_image # None THEN edit_cost ELSE generation_cost
        \* edit_image raises on prompt.lower() when the prompt is no string
        model_fails  == \/ req.image_url = None
                        \/ input_image # None /\ ~IsString(req.prompt)
        kept         == persist_image(req.image_url, files, uuids, req)
        tracked      == session_set(session_set(session_set(session_set(with_cost,
                            "total_cost", FAddRaw(with_cost["total_cost"], cost)),
                            "current_remote_url", None),
                            "current_image_path", kept[1]),
                            "current_image_url", kept[2])
    IN  IF model_fails
        THEN Answer(500, with_cost, files, uuids, mode, input_image, FZero)
        \* extract_user_prompt raises TypeError when the prompt is no string
        ELSE IF ~IsString(req.prompt)
        THEN Answer(500, tracked, kept[3], kept[4], mode, input_image, cost)
        ELSE Answer(200,
                    session_set(tracked, "history",
                                Append(tracked["history"],
                                       [ type |-> "user",
                                         message |-> extract_user_prompt(req.prompt.value) ])),
                    kept[3], kept[4], mode, input_image, cost)

\* /reset
reset(data, files, uuids) == Answer(200, <<>>, files, uuids, None, None, FZero)

UploadRequests ==
    { [ has_image |-> FALSE, filename |-> "", save_works |-> TRUE ] }
    \cup { [ has_image |-> TRUE, filename |-> f, save_works |-> w ] :
             f \in { "", "notes.txt", "my logo.PNG" }, w \in BOOLEAN }

Prompts ==
    { [ type |-> "str", value |-> "" ], [ type |-> "str", value |-> " make it blue " ],
      [ type |-> "int", value |-> "123" ] }

ProcessRequests ==
    { [ prompt |-> pr, image_url |-> u, download_works |-> w, content_type |-> "image/jpeg" ] :
        pr \in Prompts,
        u \in { None, "https://replicate.delivery/out.jpg", "data:image/png;base64,iVBORw==" },
        w \in BOOLEAN }

SessionInit ==
    /\ user_text = "" /\ analysis_json = NoneObject
    /\ result = NotCalled /\ generator_result = NotCalled
    /\ helper = NotCalled /\ threads = <<>>
    /\ phase2 = Idle /\ scrape = Idle /\ download = Idle
    /\ session = [ data |-> <<>>, files |-> {}, uuids |-> 0, log |-> <<>> ]

\* the request is answered: the session cookie and the upload folder are as
\* the handler left them, and the request is written to the log
Answered(op, answer) ==
    session' = [ data |-> answer.data, files |-> answer.files, uuids |-> answer.uuids,
                 log |-> Append(session.log,
                                [ op |-> op, status |-> answer.status, mode |-> answer.mode,
                                  input_image |-> answer.input_image, cost |-> answer.cost,
                                  before |-> session.data, files_before |-> session.files,
                                  after |-> answer.data ]) ]

Upload ==
    /\ session # Idle /\ Len(session.log) < MaxRequests
    /\ \E req \in UploadRequests :
          Answered("upload", upload(session.data, session.files, session.uuids, req))
    /\ UNCHANGED << selection_vars, phase2, scrape, download >>

Process ==
    /\ session # Idle /\ Len(session.log) < MaxRequests
    /\ \E req \in ProcessRequests :
          Answered("process", process(session.data, session.files, session.uuids, req))
    /\ UNCHANGED << selection_vars, phase2, scrape, download >>

Reset ==
    /\ session # Idle /\ Len(session.log) < MaxRequests
    /\ Answered("reset", reset(session.data, session.files, session.uuids))
    /\ UNCHANGED << selection_vars, phase2, scrape, download >>

\* the upload folder is emptied between two requests
UploadsRemoved ==
    /\ session # Idle /\ Len(session.log) < MaxRequests
    /\ session.files # {}
    /\ Answered("uploads_removed",
                Answer(200, session.data, {}, session.uuids, None, None, FZero))
    /\ UNCHANGED << selection_vars, phase2, scrape, download >>

SessionNext == Upload \/ Process \/ Reset \/ UploadsRemoved

SessionSpec == SessionInit /\ [][SessionNext]_vars

(***************************************************************************)
(* scrape_instagram_posts (services/scraper.py and apify_scraper.py): the  *)
(* actor run is started, polled until it has finished, and its dataset is  *)
(* fetched.                                                                *)
(***************************************************************************)
MaxPolls == 3
MAX_IMAGES_PER_POST == 10

\* how the platform moves a run between its statuses
RunMoves ==
    { << "READY", "RUNNING" >>, << "RUNNING", "SUCCEEDED" >>, << "RUNNING", "FAILED" >>,
      << "RUNNING", "TIMING-OUT" >>, << "TIMING-OUT", "TIMED-OUT" >>,
      << "READY", "ABORTING" >>, << "RUNNING", "ABORTING" >>, << "ABORTING", "ABORTED" >> }

\* the loop ends on SUCCEEDED only
finished_statuses_succeeded_only == { "SUCCEEDED" }

\* if status in ["SUCCEEDED", "FAILED", "ABORTED"]
finished_statuses == { "SUCCEEDED", "FAILED", "ABORTED" }

\* the loop over the posts of the dataset: images and childPosts cut to
\* MAX_IMAGES_PER_POST
processed_post(post) ==
    [ key \in DOMAIN post |->
        IF key \in { "images", "childPosts" } THEN Take(post[key], MAX_IMAGES_PER_POST)
        ELSE post[key] ]

processed_posts(posts) == [ k \in 1..Len(posts) |-> processed_post(posts[k]) ]

\* the items of the dataset of a run
Datasets ==
    { <<>>,
      << [ url |-> "p1", images |-> [ i \in 1..(MAX_IMAGES_PER_POST + 1) |-> i ] ],
         [ url |-> "p2" ] >>,
      << [ url |-> "p3", images |-> << 1, 2 >>,
           childPosts |-> [ i \in 1..(MAX_IMAGES_PER_POST + 2) |-> i ] ] >> }

ScrapeInit ==
    /\ user_text = "" /\ analysis_json = NoneObject
    /\ result = NotCalled /\ generator_result = NotCalled
    /\ helper = NotCalled /\ threads = <<>>
    /\ phase2 = Idle /\ session = Idle /\ download = Idle
    /\ \E dataset \in Datasets, copy \in { "services/scraper.py", "apify_scraper.py" } :
          scrape = [ pc |-> "start", copy |-> copy, run_status |-> "NONE", status |-> "NONE",
                     polls |-> 0, dataset |-> dataset, value |-> NotCalled ]

\* requests.post(run_url, ...): the run is started, or the call is refused
ScrapeStart ==
    /\ scrape # Idle /\ scrape.pc = "start"
    /\ \E status_code \in { 201, 401 } :
          scrape' = IF status_code # 201
                    THEN [ scrape EXCEPT !.pc = "raised", !.value = Raised("Failed to start actor") ]
                    ELSE [ scrape EXCEPT !.pc = "poll", !.run_status = "READY" ]
    /\ UNCHANGED << selection_vars, phase2, session, download >>

\* the platform moves the run on
RunAdvances ==
    /\ scrape # Idle
    /\ \E move \in RunMoves :
          /\ scrape.run_status = move[1]
          /\ scrape' = [ scrape EXCEPT !.run_status = move[2] ]
    /\ UNCHANGED << selection_vars, phase2, session, download >>

\* one pass through the while loop: the status is read; the loop goes on
\* after 5 seconds, or ends and the status decides between the dataset and
\* the exception
ScrapePoll ==
    /\ scrape # Idle /\ scrape.pc = "poll"
    /\ scrape' =
          IF scrape.run_status \notin finished_statuses
          THEN [ scrape EXCEPT !.status = scrape.run_status,
                               !.polls = IF @ < MaxPolls THEN @ + 1 ELSE @ ]
          ELSE IF scrape.run_status # "SUCCEEDED"
          THEN [ scrape EXCEPT !.status = scrape.run_status, !.pc = "raised",
                               !.value = Raised("Actor run failed with status: "
                                                   \o scrape.run_status) ]
          ELSE [ scrape EXCEPT !.status = scrape.run_status, !.pc = "fetch" ]
    /\ UNCHANGED << selection_vars, phase2, session, download >>

\* requests.get(dataset_url, ...) and the rest of the function
ScrapeFetch ==
    /\ scrape # Idle /\ scrape.pc = "fetch"
    /\ \E status_code \in { 200, 502 } :
          scrape' = IF status_code # 200
                    THEN [ scrape EXCEPT !.pc = "raised", !.value = Raised("Failed to fetch dataset") ]
                    ELSE [ scrape EXCEPT !.pc = "returned",
                                         !.value = Returned(processed_posts(scrape.dataset)) ]
    /\ UNCHANGED << selection_vars, phase2, session, download >>

ScrapeNext == ScrapeStart \/ RunAdvances \/ ScrapePoll \/ ScrapeFetch

ScrapeSpec == ScrapeInit /\ [][ScrapeNext]_vars

\* the calls of the function come back and the function goes on; nothing
\* is asked of the platform
ScrapeFairSpec ==
    ScrapeSpec /\ WF_vars(ScrapeStart) /\ WF_vars(ScrapePoll) /\ WF_vars(ScrapeFetch)

\* the helper fn has returned
HelperReturned(fn) == helper.outcome = "returned" /\ helper.fn = fn

(***************************************************************************)
(* What the properties speak about, read off the arguments of the call.    *)
(***************************************************************************)
Called(r) == r.outcome # "not_called"
Ok(r) == r.outcome = "returned"

HasSelector ==
    /\ ~IsNone(analysis_json)
    /\ "generation_category_selector" \in DOMAIN analysis_json

SelectorData == analysis_json["generation_category_selector"]

Categories == IF IsNone(analysis_json) THEN <<>> ELSE Get(analysis_json, "categories", <<>>)

Metadata == IF IsNone(analysis_json) THEN <<>> ELSE Get(analysis_json, "analysis_metadata", <<>>)

PrimaryId == Get(Metadata, "primary_category", None)

RecommendedId == Get(Get(Metadata, "recommended_category_for_generation", <<>>), "category_id", None)

\* the scoring pass is reached and both keys it reads are there
ScoringRuns ==
    /\ HasSelector
    /\ Categories # <<>>
    /\ "available_categories" \in DOMAIN SelectorData
    /\ "selection_logic" \in DOMAIN SelectorData

\* the score entries, in the order of available_categories
ScoredEntries ==
    IF ScoringRuns
    THEN score_categories(SelectorData["available_categories"], SelectorData["selection_logic"],
                          Keywords(user_text), Indicators(user_text))
    ELSE <<>>

\* the entries with the top final_score
TopIndexes(entries) ==
    { i \in 1..Len(entries) : \A j \in 1..Len(entries) : FLe(entries[j][2], entries[i][2]) }

\* the first entry, in the order of available_categories, with the top score
FirstTop(entries) ==
    entries[CHOOSE i \in TopIndexes(entries) : \A j \in TopIndexes(entries) : i <= j]

Confident(entries) == entries # <<>> /\ ~FLt(FirstTop(entries)[2], min_threshold)

LowConfidence(entries) == entries # <<>> /\ FLt(FirstTop(entries)[2], min_threshold)

\* the indexes of the records of categories that carry the id
RecordsWithId(id) ==
    { i \in 1..Len(Categories) : Get(Categories[i], "category_id", None) = id }

\* data is the categories record with the id, or null when there is none
IsRecordFor(data, id) ==
    IF RecordsWithId(id) = {} THEN IsNone(data)
    ELSE \E i \in RecordsWithId(id) : data = Categories[i]

(***************************************************************************)
(* C1 -- a bundle whose generation_category_selector lacks                 *)
(* available_categories or selection_logic, with non-empty categories,     *)
(* gets a SelectionResult: the call does not raise.                        *)
(***************************************************************************)
MissingSelectorKey ==
    /\ HasSelector
    /\ Categories # <<>>
    /\ \/ "available_categories" \notin DOMAIN SelectorData
       \/ "selection_logic" \notin DOMAIN SelectorData

MissingSelectorKeyReturns(r) == MissingSelectorKey => Ok(r)

C1_MissingSelectorKeysNeverRaise ==
    /\ Called(result) => MissingSelectorKeyReturns(result)
    /\ Called(generator_result) => MissingSelectorKeyReturns(generator_result)

(***************************************************************************)
(* C2 -- on the confident-match path, when no record of categories carries *)
(* the winning id, the call returns selected_category_id = the winning id  *)
(* and category_data = null, and does not raise.                           *)
(***************************************************************************)
MissingRecordGivesNullData(r) ==
    LET entries == ScoredEntries
    IN  (Confident(entries) /\ RecordsWithId(FirstTop(entries)[1]) = {})
        => /\ Ok(r)
           /\ r.value.selected_category_id = FirstTop(entries)[1]
           /\ IsNone(r.value.category_data)

C2_MissingRecordGivesNullData ==
    /\ Called(result) => MissingRecordGivesNullData(result)
    /\ Called(generator_result) => MissingRecordGivesNullData(generator_result)

(***************************************************************************)
(* C3 -- whatever the text and the bundle, a returned confidence_score is  *)
(* in [0.0, 1.0].                                                          *)
(***************************************************************************)
ConfidenceInUnitInterval(r) ==
    Ok(r) => /\ FLe(FZero, r.value.confidence_score)
             /\ FLe(r.value.confidence_score, FOne)

C3_ConfidenceInUnitInterval ==
    /\ Called(result) => ConfidenceInUnitInterval(result)
    /\ Called(generator_result) => ConfidenceInUnitInterval(generator_result)

\* a confident match was returned with the largest confidence
C3_Witness ==
    /\ Ok(result)
    /\ "scores_breakdown" \in DOMAIN result.value
    /\ result.value.confidence_score = FOne

(***************************************************************************)
(* C4 -- when a category is scored and the top final_score is >= 0.3,      *)
(* selected_category_id is the id of a category with the top score and     *)
(* category_data is the categories record with that id.                    *)
(***************************************************************************)
TopScoreIsSelected(r) ==
    LET entries == ScoredEntries
    IN  Confident(entries)
        => /\ Ok(r)
           /\ \E i \in TopIndexes(entries) : entries[i][1] = r.value.selected_category_id
           /\ \E c \in RecordsWithId(r.value.selected_category_id) :
                  r.value.category_data = Categories[c]

C4_TopScoreIsSelected ==
    /\ Called(result) => TopScoreIsSelected(result)
    /\ Called(generator_result) => TopScoreIsSelected(generator_result)

(***************************************************************************)
(* C5 -- when a category is scored and the top final_score is < 0.3, both  *)
(* copies return selected_category_id = analysis_metadata.primary_category *)
(* with the categories record of that id (or null) as category_data.       *)
(***************************************************************************)
ReturnsFallback(r, id) ==
    /\ Ok(r)
    /\ r.value.selected_category_id = id
    /\ IsRecordFor(r.value.category_data, id)

LowConfidenceReturns(r, id) == LowConfidence(ScoredEntries) => ReturnsFallback(r, id)

TieGoesToFirstAvailable(r) ==
    LET entries == ScoredEntries
    IN  (Confident(entries) /\ Cardinality(TopIndexes(entries)) >= 2)
        => /\ Ok(r)
           /\ r.value.selected_category_id = FirstTop(entries)[1]

C6_TieGoesToFirstAvailable ==
    /\ Called(result) => TieGoesToFirstAvailable(result)
    /\ Called(generator_result) => TieGoesToFirstAvailable(generator_result)

(***************************************************************************)
(* C7 -- the threshold is strict: a top final_score of exactly 0.3 takes   *)
(* the confident-match branch and the top category is returned; the        *)
(* primary-category fallback is taken only for a top score < 0.3.          *)
(***************************************************************************)
ThresholdIsStrict(r) ==
    LET entries == ScoredEntries
    IN  entries # <<>>
        => /\ FirstTop(entries)[2] = min_threshold
              => /\ Ok(r)
                 /\ "scores_breakdown" \in DOMAIN r.value
                 /\ r.value.selected_category_id = FirstTop(entries)[1]
           /\ (Ok(r) /\ "scores_breakdown" \notin DOMAIN r.value)
              => FLt(FirstTop(entries)[2], min_threshold)

C7_ThresholdIsStrict ==
    /\ Called(result) => ThresholdIsStrict(result)
    /\ Called(generator_result) => ThresholdIsStrict(generator_result)

(***************************************************************************)
(* C8 -- if analysis_json is falsy or has no generation_category_selector  *)
(* key, the result has selected_category_id = null, confidence_score = 0.0 *)
(* and category_data = null, for every user text.                          *)
(***************************************************************************)
ReturnsNothingSelected(r) ==
    /\ Ok(r)
    /\ r.value.selected_category_id = None
    /\ r.value.confidence_score = FZero
    /\ IsNone(r.value.category_data)

NoSelectorReturnsNull(r) == ~HasSelector => ReturnsNothingSelected(r)

C8_NoSelectorReturnsNull ==
    /\ Called(result) => NoSelectorReturnsNull(result)
    /\ Called(generator_result) => NoSelectorReturnsNull(generator_result)

\* a call returned for a bundle that has categories, a primary category and
\* a text with keywords, but no selector
C8_Witness ==
    /\ ~HasSelector
    /\ Ok(result)
    /\ Categories # <<>>
    /\ PrimaryId # None
    /\ Keywords(user_text) # <<>>

(***************************************************************************)
(* C9 -- if generation_category_selector is present but categories is      *)
(* missing or empty, the result has selected_category_id = null,           *)
(* confidence_score = 0.0, category_data = null and a reasoning other than *)
(* that of the no-selector case; available_categories and primary_category *)
(* are not read.                                                           *)
(***************************************************************************)
NoCategoriesReturnsNull(r) ==
    (HasSelector /\ Categories = <<>>)
    => /\ ReturnsNothingSelected(r)
       /\ r.value.reasoning = "No categories available"
       /\ r.value.reasoning # "No category selector data available in analysis"

C9_NoCategoriesReturnsNull ==
    /\ Called(result) => NoCategoriesReturnsNull(result)
    /\ Called(generator_result) => NoCategoriesReturnsNull(generator_result)

\* both copies returned for a selector without available_categories, which a
\* read would have failed on, in a bundle that names a primary category
C9_Witness ==
    /\ HasSelector
    /\ Categories = <<>>
    /\ "available_categories" \notin DOMAIN SelectorData
    /\ PrimaryId # None
    /\ Ok(result)
    /\ Ok(generator_result)

(***************************************************************************)
(* C10 -- if categories is non-empty but no id of available_categories     *)
(* has a selection_logic entry, the result has selected_category_id =      *)
(* analysis_metadata.primary_category, confidence_score = 0.0, and         *)
(* category_data = the categories record with that id, or null when there  *)
(* is none or primary_category is absent.                                  *)
(***************************************************************************)
NothingScorable ==
    /\ HasSelector
    /\ Categories # <<>>
    /\ "available_categories" \in DOMAIN SelectorData
    /\ \A k \in 1..Len(SelectorData["available_categories"]) :
           SelectorData["available_categories"][k]
               \notin DOMAIN Get(SelectorData, "selection_logic", <<>>)

NothingScoredReturnsPrimary(r) ==
    NothingScorable
    => /\ Ok(r)
       /\ r.value.selected_category_id = PrimaryId
       /\ r.value.confidence_score = FZero
       /\ IF PrimaryId = None \/ RecordsWithId(PrimaryId) = {}
          THEN IsNone(r.value.category_data)
          ELSE \E c \in RecordsWithId(PrimaryId) : r.value.category_data = Categories[c]

C10_NothingScoredReturnsPrimary ==
    /\ Called(result) => NothingScoredReturnsPrimary(result)
    /\ Called(generator_result) => NothingScoredReturnsPrimary(generator_result)

(***************************************************************************)
(* C11 -- on the confident-match path and on the low-confidence fallback   *)
(* path the returned confidence_score is rounded to 2 decimals (it is the  *)
(* double of a multiple of 0.01); on the confident path scores_breakdown   *)
(* is present, its final_score equals confidence_score, and keyword_score  *)
(* and indicator_score are rounded to 2 decimals as well.                  *)
(***************************************************************************)
\* the doubles of the multiples of 0.01 in [0, 1]
Cents == { FDivIntRaw(h, 100) : h \in 0..100 }

ConfidenceIsRounded(r) ==
    (Ok(r) /\ ScoredEntries # <<>>)
    => /\ r.value.confidence_score \in Cents
       /\ Confident(ScoredEntries)
          => /\ "scores_breakdown" \in DOMAIN r.value
             /\ r.value.scores_breakdown.final_score = r.value.confidence_score
             /\ r.value.scores_breakdown.keyword_score \in Cents
             /\ r.value.scores_breakdown.indicator_score \in Cents

C11_ConfidenceIsRounded ==
    /\ Called(result) => ConfidenceIsRounded(result)
    /\ Called(generator_result) => ConfidenceIsRounded(generator_result)

(***************************************************************************)
(* C12 -- for a bundle with the single category hiring_post (keywords      *)
(* hiring, volunteer, apply; content_indicators [call to action]) and the  *)
(* text "We're hiring a new volunteer coordinator, apply today!", the      *)
(* result has indicator_score = 1.0, final_score >= 0.3 and                *)
(* selected_category_id = hiring_post.                                     *)
(***************************************************************************)
HiringScenario ==
    /\ user_text = "We're hiring a new volunteer coordinator, apply today!"
    /\ analysis_json.generation_category_selector.available_categories = << "hiring_post" >>
    /\ analysis_json.generation_category_selector.selection_logic
         = [ hiring_post |-> [ keywords |-> << "hiring", "volunteer", "apply" >>,
                               content_indicators |-> << "call to action" >>,
                               purpose |-> "call_to_action" ] ]
    /\ Len(analysis_json.categories) = 1

HiringIsSelected(r) ==
    /\ Ok(r)
    /\ r.value.selected_category_id = "hiring_post"
    /\ "scores_breakdown" \in DOMAIN r.value
    /\ r.value.scores_breakdown.indicator_score = FOne
    /\ FLe(min_threshold, r.value.scores_breakdown.final_score)

C12_HiringScenario ==
    /\ (HiringScenario /\ Called(result)) => HiringIsSelected(result)
    /\ (HiringScenario /\ Called(generator_result)) => HiringIsSelected(generator_result)

\* the example has run in both copies, with half of the six keywords matched
C12_Witness ==
    /\ HiringScenario
    /\ Ok(result)
    /\ Ok(generator_result)
    /\ result.value.scores_breakdown.keyword_score = FDivInt(1, 2)
    /\ result.value.confidence_score = FDivIntRaw(70, 100)

(***************************************************************************)
(* C13 -- calculate_keyword_score returns 0.0 when either list is empty,   *)
(* and otherwise (the number of user keywords u for which some category    *)
(* keyword c has c in u or u in c) / (the number of user keywords); the    *)
(* result is in [0, 1]; ([], [join]) gives 0.0 and ([joining], [join])     *)
(* gives 1.0.                                                              *)
(***************************************************************************)
\* the positions of the user keywords that contain, or are contained in, a category keyword
MatchingPositions(us, cs) ==
    { i \in 1..Len(us) :
        \E j \in 1..Len(cs) : Contains(cs[j], us[i]) \/ Contains(us[i], cs[j]) }

KeywordScoreIsMatchRatio(us, cs, score) ==
    /\ (us = <<>> \/ cs = <<>>) => score = FZero
    /\ (us # <<>> /\ cs # <<>>)
       => score = FDivIntRaw(Cardinality(MatchingPositions(us, cs)), Len(us))
    /\ FLe(FZero, score) /\ FLe(score, FOne)
    /\ (us = <<>> /\ cs = << "join" >>) => score = FZero
    /\ (us = << "joining" >> /\ cs = << "join" >>) => score = FOne

C13_KeywordScoreIsMatchRatio ==
    HelperReturned("calculate_keyword_score")
    => KeywordScoreIsMatchRatio(helper.args[1], helper.args[2], helper.value)

\* a user keyword contained in the longer category keyword counted: 2 of 3 match
C13_Witness ==
    /\ HelperReturned("calculate_keyword_score")
    /\ helper.args = << << "join", "other", "joining" >>, << "joining" >> >>
    /\ helper.value = FDivIntRaw(2, 3)

(***************************************************************************)
(* C18 -- duplicates in the user keyword sequence do not matter:           *)
(* calculate_keyword_score gives the same value for a sequence as for the  *)
(* sequence with its duplicate tokens removed.                             *)
(***************************************************************************)
\* the first occurrence of every token, in order
RECURSIVE RemoveDuplicates(_)
RemoveDuplicates(us) ==
    IF us = <<>> THEN <<>>
    ELSE LET front == RemoveDuplicates(SubSeq(us, 1, Len(us) - 1))
             last  == us[Len(us)]
         IN  IF \E i \in 1..Len(front) : front[i] = last THEN front ELSE Append(front, last)

C18_DuplicatesDoNotMatter ==
    HelperReturned("calculate_keyword_score")
    => helper.value = calculate_keyword_score(RemoveDuplicates(helper.args[1]), helper.args[2])

(***************************************************************************)
(* C14 -- calculate_indicator_score returns 0.0 for an empty label list,   *)
(* and otherwise (the number of labels whose lowercase form is in the      *)
(* 9-entry table and whose mapped flag is true in user_indicators) / (the  *)
(* number of labels); labels outside the table add nothing and never       *)
(* raise; the result is in [0, 1]; ({has_cta: true}, [call to action])     *)
(* gives 1.0 and ({has_cta: false}, [call to action]) gives 0.0.           *)
(***************************************************************************)
\* the label's lowercase form is in the table and its flag is set in d
FlagIsSet(d, label) ==
    \E key \in DOMAIN indicator_map :
        /\ key = str_lower(label)
        /\ \E flag \in DOMAIN d : flag = indicator_map[key] /\ d[flag] = TRUE

IndicatorScoreIsFlagRatio(d, labels, score) ==
    /\ Cardinality(DOMAIN indicator_map) = 9
    /\ labels = <<>> => score = FZero
    /\ labels # <<>>
       => score = FDivIntRaw(Cardinality({ i \in 1..Len(labels) : FlagIsSet(d, labels[i]) }),
                             Len(labels))
    /\ FLe(FZero, score) /\ FLe(score, FOne)
    /\ (labels = << "call to action" >> /\ DOMAIN d = { "has_cta" })
       => score = (IF d.has_cta THEN FOne ELSE FZero)

C14_IndicatorScoreIsFlagRatio ==
    HelperReturned("calculate_indicator_score")
    => IndicatorScoreIsFlagRatio(helper.args[1], helper.args[2], helper.value)

\* a capitalised label of the table next to a label outside it: 1 of 2
C14_Witness ==
    /\ HelperReturned("calculate_indicator_score")
    /\ helper.args[1] = [ has_cta |-> FALSE, has_date |-> TRUE, has_narrative |-> FALSE ]
    /\ helper.args[2] = << "Deadline", "urgent" >>
    /\ helper.value = FDivIntRaw(1, 2)

(***************************************************************************)
(* C15 -- extract_keywords returns, in the original order and with         *)
(* duplicates retained, exactly the lowercased whitespace-separated tokens *)
(* (every character other than word characters, whitespace, hyphen and     *)
(* apostrophe first replaced by a space) that are longer than 3 and are no *)
(* stop words; empty or all-stop-word input yields the empty sequence and  *)
(* the call always returns; "We are hiring a volunteer coordinator" gives  *)
(* [hiring, volunteer, coordinator].                                       *)
(***************************************************************************)
\* the text, character by character, lowercased and with the other characters blanked
CleanedChars(t) ==
    [ k \in 1..Len(t) |->
        LET c == LowerChar(CharAt(t, k))
        IN  IF IsWordChar(c) \/ IsSpace(c) \/ c \in { "'", "-" } THEN c ELSE " " ]

\* a token starts at i: a non-blank preceded by a blank or by the start of the text
TokenStartsAt(cs, i) == ~IsSpace(cs[i]) /\ (i = 1 \/ IsSpace(cs[i - 1]))

\* the token that starts at i, up to the next blank
RECURSIVE TokenFrom(_, _)
TokenFrom(cs, i) ==
    IF i > Len(cs) \/ IsSpace(cs[i]) THEN "" ELSE cs[i] \o TokenFrom(cs, i + 1)

KeptTokenStartsAt(cs, i) ==
    /\ TokenStartsAt(cs, i)
    /\ Len(TokenFrom(cs, i)) > 3
    /\ TokenFrom(cs, i) \notin stop_words

ExpectedKeywords(t) ==
    LET cs     == CleanedChars(t)
        starts == SelectSeq([ i \in 1..Len(cs) |-> i ], LAMBDA i : KeptTokenStartsAt(cs, i))
    IN  [ n \in 1..Len(starts) |-> TokenFrom(cs, starts[n]) ]

KeywordsAreKeptTokens(t, keywords) ==
    /\ keywords = ExpectedKeywords(t)
    /\ t = "" => keywords = <<>>
    /\ (\A w \in Range(str_split(str_lower(t))) : w \in stop_words) => keywords = <<>>
    /\ t = "We are hiring a volunteer coordinator"
       => keywords = << "hiring", "volunteer", "coordinator" >>

C15_KeywordsAreKeptTokens ==
    HelperReturned("extract_keywords")
    => KeywordsAreKeptTokens(helper.args[1], helper.value)

\* a token met twice, once capitalised and once with punctuation, is returned twice
C15_Witness ==
    /\ HelperReturned("extract_keywords")
    /\ helper.args[1] = "Join join!"
    /\ helper.value = << "join", "join" >>

(***************************************************************************)
(* C16 -- detect_content_indicators returns a mapping with exactly the six *)
(* keys has_date, has_cta, has_narrative, has_educational,                 *)
(* has_announcement, has_question, each a boolean that depends on its own  *)
(* check only; for "Apply by March 5th!" has_cta and has_date are true and *)
(* the other four are false.                                               *)
(***************************************************************************)
\* the lowercased text mentions one of the phrases
Mentions(phrases, t) == \E ph \in phrases : Contains(ph, str_lower(t))

SixIndependentFlags(t, flags) ==
    /\ DOMAIN flags = { "has_date", "has_cta", "has_narrative", "has_educational",
                        "has_announcement", "has_question" }
    /\ \A k \in DOMAIN flags : flags[k] \in BOOLEAN
    /\ flags.has_cta = Mentions({ "apply", "join", "sign up", "register", "volunteer",
                                  "hiring", "deadline" }, t)
    /\ flags.has_narrative = Mentions({ "story", "experience", "testimonial", "journey",
                                        "impact" }, t)
    /\ flags.has_educational = Mentions({ "learn", "how to", "tips", "guide", "tutorial",
                                          "fact" }, t)
    /\ flags.has_announcement = Mentions({ "announcing", "new", "launching", "introducing",
                                           "reminder" }, t)
    /\ flags.has_question = (\E k \in 1..Len(t) : CharAt(t, k) = "?")
    /\ t = "Apply by March 5th!"
       => flags = [ has_date |-> TRUE, has_cta |-> TRUE, has_narrative |-> FALSE,
                    has_educational |-> FALSE, has_announcement |-> FALSE,
                    has_question |-> FALSE ]

C16_SixIndependentFlags ==
    HelperReturned("detect_content_indicators")
    => SixIndependentFlags(helper.args[1], helper.value)

\* a date, a call to action, a story and a question in one text: four flags set at once
C16_Witness ==
    /\ HelperReturned("detect_content_indicators")
    /\ helper.args[1] = "story? join!"
    /\ helper.value.has_narrative /\ helper.value.has_cta /\ helper.value.has_question
    /\ ~helper.value.has_date

(***************************************************************************)
(* C19 -- has_date is true exactly when the lowercased text contains,      *)
(* anywhere, a month name (january..december) or a numeric date of 1-2     *)
(* digits, '/', 1-2 digits (optionally followed by '/' and 2-4 digits).    *)
(***************************************************************************)
MonthNames ==
    { "january", "february", "march", "april", "may", "june", "july",
      "august", "september", "october", "november", "december" }

\* a month name or digits/digits begins at position p of s
DateBeginsAt(s, p) ==
    \/ \E m \in MonthNames : p + Len(m) - 1 <= Len(s) /\ SubSeq(s, p, p + Len(m) - 1) = m
    \/ \E a, b \in 1..2 :
          /\ \A k \in p..(p + a - 1) : IsDigit(CharAt(s, k))
          /\ CharAt(s, p + a) = "/"
          /\ \A k \in (p + a + 1)..(p + a + b) : IsDigit(CharAt(s, k))

C19_HasDateAnywhere ==
    HelperReturned("detect_content_indicators")
    => helper.value.has_date
         = (\E p \in 1..Len(helper.args[1]) : DateBeginsAt(str_lower(helper.args[1]), p))

\* C19 as amended: the month name or numeric date must begin at a word
\* boundary, that is at the start of the text or right after a character
\* that is no letter, digit or underscore.
C19_HasDateAtWordBoundary ==
    HelperReturned("detect_content_indicators")
    => helper.value.has_date
         = (\E p \in 1..Len(helper.args[1]) :
               /\ DateBeginsAt(str_lower(helper.args[1]), p)
               /\ p = 1 \/ ~IsWordChar(CharAt(helper.args[1], p - 1)))

\* a month name and a numeric date, each inside a longer word: has_date is false
C19_Witness ==
    /\ HelperReturned("detect_content_indicators")
    /\ helper.args[1] = "dismay x3/15"
    /\ ~helper.value.has_date

(***************************************************************************)
(* C17 -- select_category_for_generation is side-effect-free: no step of a *)
(* call changes the AnalysisBundle (the order of available_categories and  *)
(* categories included), and however the steps of concurrent calls on the  *)
(* same bundle interleave, each call ends with the result it gives when    *)
(* run alone.                                                              *)
(***************************************************************************)
EndsAsRunAlone(locals, bundle) ==
    locals.pc = "done"
    => locals.result = select_category_for_generation(locals.user_text, bundle)

C17_ConcurrentCallsAreIsolated ==
    [][ /\ analysis_json' = analysis_json
        /\ \A t \in DOMAIN threads : EndsAsRunAlone(threads'[t], analysis_json) ]_vars

\* one call has scored a category and is still in its loop while another,
\* on a different text, has already returned a confident match
C17_Witness ==
    \E t, u \in DOMAIN threads :
        /\ threads[t].pc = "loop"
        /\ Len(threads[t].category_scores) = 1
        /\ threads[t].i = 2
        /\ threads[u].pc = "done"
        /\ threads[u].user_text # threads[t].user_text
        /\ Ok(threads[u].result)
        /\ "scores_breakdown" \in DOMAIN threads[u].result.value

(***************************************************************************)
(* C20 -- an id listed in available_categories that has no entry in        *)
(* selection_logic is skipped without error: the lookup raises no          *)
(* KeyError, the id contributes no score entry, and it is never the        *)
(* selected_category_id of a confident match, whatever the other           *)
(* categories score.                                                       *)
(***************************************************************************)
\* the ids of available_categories that selection_logic has no entry for
IdsWithoutLogic ==
    IF ScoringRuns
    THEN { id \in Range(SelectorData["available_categories"]) :
             id \notin DOMAIN SelectorData["selection_logic"] }
    ELSE {}

IdsWithoutLogicAreSkipped(r) ==
    \A id \in IdsWithoutLogic :
        /\ r # Raised("KeyError")
        /\ \A k \in 1..Len(ScoredEntries) : ScoredEntries[k][1] # id
        /\ (Ok(r) /\ "scores_breakdown" \in DOMAIN r.value)
           => r.value.selected_category_id # id

C20_IdsWithoutLogicAreSkipped ==
    /\ Called(result) => IdsWithoutLogicAreSkipped(result)
    /\ Called(generator_result) => IdsWithoutLogicAreSkipped(generator_result)

\* the first available id has no entry and the second one is a confident match
C20_Witness ==
    /\ IdsWithoutLogic # {}
    /\ SelectorData["available_categories"][1] \in IdsWithoutLogic
    /\ Len(ScoredEntries) = 1
    /\ Ok(result) /\ "scores_breakdown" \in DOMAIN result.value
    /\ Ok(generator_result) /\ "scores_breakdown" \in DOMAIN generator_result.value
    /\ result.value.selected_category_id = SelectorData["available_categories"][2]

(***************************************************************************)
(* C21 -- on the confident-match path the reasoning lists at most 5        *)
(* matched user keywords (those that contain, or are contained in, a       *)
(* keyword of the winning category), lists at most 3 true indicator flag   *)
(* names and only when the winner's indicator_score > 0, and always ends   *)
(* with the clause "High match with '<category_name>' category.".          *)
(***************************************************************************)
\* the entries of xs at the positions in ps, in order, at most n of them
FirstAt(xs, ps, n) ==
    Take(SelectSeq([ i \in 1..Len(xs) |-> i ], LAMBDA i : i \in ps), n)

ListedAt(xs, ps, n) ==
    str_join(", ", [ k \in 1..Len(FirstAt(xs, ps, n)) |-> xs[FirstAt(xs, ps, n)[k]] ])

ExpectedReasoning(best, category_name) ==
    LET keywords == Keywords(user_text)
        matching == MatchingPositions(keywords,
                        Get(SelectorData["selection_logic"][best[1]], "keywords", <<>>))
        set      == { k \in 1..Len(IndicatorKeys) : Indicators(user_text)[IndicatorKeys[k]] }
    IN  (IF matching # {}
         THEN "Detected keywords: " \o ListedAt(keywords, matching, 5) \o ". " ELSE "")
        \o (IF FLt(FZero, best[4]) /\ set # {}
            THEN "Content indicators: " \o ListedAt(IndicatorKeys, set, 3) \o ". " ELSE "")
        \o "High match with '" \o category_name \o "' category."

ReasoningIsCapped(r) ==
    Confident(ScoredEntries)
    => /\ Ok(r)
       /\ r.value.reasoning
            = ExpectedReasoning(FirstTop(ScoredEntries),
                                Get(r.value.category_data, "category_name", "unknown"))

C21_ReasoningIsCapped ==
    /\ Called(result) => ReasoningIsCapped(result)
    /\ Called(generator_result) => ReasoningIsCapped(generator_result)

(***************************************************************************)
(* C23 -- the copies in instagram-scraper/category_selector.py and in      *)
(* services/generator.py return the same selected_category_id,             *)
(* confidence_score, reasoning and category_data (or raise the same        *)
(* exception) for every text and every bundle without a                    *)
(* recommended_category_for_generation.category_id; they differ only on    *)
(* the low-confidence path, where the services copy adds selection_method  *)
(* and prefers the recommended category.                                   *)
(***************************************************************************)
DecisionFields == { "selected_category_id", "confidence_score", "reasoning", "category_data" }

SameDecision(r, g) ==
    /\ r.outcome = g.outcome
    /\ r.outcome = "raised" => r.exception = g.exception
    /\ r.outcome = "returned"
       => \A f \in DecisionFields : r.value[f] = g.value[f]

CopiesAgree(r, g) ==
    /\ RecommendedId = None => SameDecision(r, g)
    /\ ~SameDecision(r, g) => LowConfidence(ScoredEntries)
    /\ r # g
       => /\ LowConfidence(ScoredEntries)
          /\ "selection_method" \in DOMAIN g.value
          /\ "selection_method" \notin DOMAIN r.value

C23_CopiesAgree ==
    (Called(result) /\ Called(generator_result)) => CopiesAgree(result, generator_result)

\* a low-confidence fallback without a recommendation: the same decision in
\* both copies, selection_method in the services copy only
C23_Witness ==
    /\ Ok(result) /\ Ok(generator_result)
    /\ LowConfidence(ScoredEntries)
    /\ RecommendedId = None
    /\ SameDecision(result, generator_result)
    /\ result # generator_result
    /\ generator_result.value.selection_method = "fallback_to_primary"

(***************************************************************************)
(* C24 -- every content_indicators label that build_category_selector      *)
(* emits is outside the lookup table of calculate_indicator_score, so      *)
(* over such a selector indicator_score is 0 for every category and every  *)
(* user text, and the confidence of a selection never exceeds 0.6.         *)
(***************************************************************************)
BuiltLabels ==
    UNION { { l.content_indicators[k] : k \in 1..Len(l.content_indicators) } : l \in BuiltLogic }

LabelIsInTable == [ label \in BuiltLabels |-> str_lower(label) \in DOMAIN indicator_map ] @@ <<>>

BuiltLabelsAreUnknown ==
    \A id \in DOMAIN helper.value.selection_logic :
        \A k \in 1..Len(helper.value.selection_logic[id].content_indicators) :
            ~LabelIsInTable[helper.value.selection_logic[id].content_indicators[k]]

ConfidenceAtMostKeywordWeight(r) ==
    /\ \A k \in 1..Len(ScoredEntries) : ScoredEntries[k][4] = FZero
    /\ Ok(r) => FLe(r.value.confidence_score, FDivIntRaw(6, 10))

C24_BuiltSelectorNeverUsesIndicators ==
    HelperReturned("build_category_selector")
    => /\ BuiltLabelsAreUnknown
       /\ Called(result) => ConfidenceAtMostKeywordWeight(result)
       /\ Called(generator_result) => ConfidenceAtMostKeywordWeight(generator_result)

\* every user keyword matches the keywords taken from the category name and
\* the labels built from the description are ignored: the confidence is 0.6
C24_Witness ==
    /\ HelperReturned("build_category_selector")
    /\ Ok(result) /\ Ok(generator_result)
    /\ result.value.selected_category_id = "hiring_post"
    /\ helper.value.selection_logic["hiring_post"].content_indicators # <<>>
    /\ Indicators(user_text).has_cta
    /\ result.value.confidence_score = FDivIntRaw(6, 10)
    /\ generator_result.value.confidence_score = FDivIntRaw(6, 10)

(***************************************************************************)
(* C29 -- phase 2: whatever the interleaving and the completion order of   *)
(* the category tasks, of which at most 3 run at once, and whichever of    *)
(* them fail, category_analyses ends with exactly one entry per detected   *)
(* category: the result of its task, or the fallback record with the name  *)
(* of the category and the error.  A failed task never aborts the others.  *)
(***************************************************************************)
EntriesOf(i) ==
    { k \in 1..Len(phase2.category_analyses) :
        phase2.category_analyses[k].category_name
            = phase2.category_data.categories[i].category_name }

IsEntryOf(entry, i) ==
    LET category_metadata == phase2.category_data.categories[i]
    IN  IF phase2.futures[i].outcome.outcome = "returned"
        THEN entry = category_analysis(category_metadata, << phase2.posts[i] >>)
        ELSE entry = [ category_name |-> category_metadata.category_name,
                       error |-> category_error(category_metadata),
                       note |-> "Analysis failed for this category" ]

\* the loop is never stuck: a future waits to be yielded, or a task runs, or
\* a task can start
CollectingGoesOn ==
    \/ FuturesIn("finished") \ phase2.yielded # {}
    \/ FuturesIn("running") # {}
    \/ FuturesIn("pending") # {} /\ Cardinality(FuturesIn("running")) < max_workers(NumCategories)

C22_OneJsonPerCategory ==
    phase2.pc = "done"
    => /\ DOMAIN phase2.category_jsons
            = { phase2.category_data.categories[i].category_id : i \in 1..NumCategories }
       /\ \A i \in 1..NumCategories :
            LET category_metadata == phase2.category_data.categories[i]
            IN  phase2.category_jsons[category_metadata.category_id].category_info.category_name
                    = category_metadata.category_name

(***************************************************************************)
(* C30 -- download_image_as_base64 ends after at most max_retries HTTP     *)
(* requests and never raises: it returns the data of the first response    *)
(* with status 200, tries again after a request exception or another       *)
(* status while attempts remain, stops at once on any other exception, and *)
(* returns (None, None) when no attempt succeeded.                         *)
(***************************************************************************)
Retryable(outcome) ==
    IF "raised" \in DOMAIN outcome
    THEN outcome.raised \in { "ConnectionError", "Timeout" }
    ELSE outcome.status_code # 200

LastOutcome == download.outcomes[Len(download.outcomes)]

DownloadEndsAsClaimed ==
    /\ Len(download.outcomes) <= download.max_retries
    /\ download.pc # "raised"
    /\ \A k \in 1..(Len(download.outcomes) - 1) : Retryable(download.outcomes[k])
    /\ download.pc = "loop"
       => /\ \A k \in 1..Len(download.outcomes) : Retryable(download.outcomes[k])
          /\ download.attempt = Len(download.outcomes)
    /\ download.pc = "returned"
       => \/ /\ download.outcomes # <<>>
             /\ "raised" \notin DOMAIN LastOutcome /\ LastOutcome.status_code = 200
             /\ download.value[2] = "image/jpeg"
             /\ download.value[1] \in
                    { b64encode(LastOutcome.content), b64encode(SavedAsJpeg[<< 137, 80, 78, 71 >>]) }
          \/ /\ download.value = << None, None >>
             /\ \/ download.outcomes # <<>> /\ LastOutcome = [ raised |-> "ValueError" ]
                \/ /\ Len(download.outcomes) = download.max_retries
                   /\ \A k \in 1..Len(download.outcomes) : Retryable(download.outcomes[k])

C30_DownloadEndsAsClaimed == download # Idle => DownloadEndsAsClaimed

\* a time-out, a 503, then the PNG: the third request succeeds
C30_Witness ==
    /\ download # Idle /\ download.pc = "returned"
    /\ download.max_retries = 3
    /\ download.outcomes = << [ raised |-> "Timeout" ],
                              [ status_code |-> 503, content |-> << 60, 104 >> ],
                              [ status_code |-> 200, content |-> << 137, 80, 78, 71 >> ] >>
    /\ download.value = << "/9j/", "image/jpeg" >>
    /\ download.sleeps = << 2 >>

(***************************************************************************)
(* C25 -- on one session, /process edits exactly when the session holds a  *)
(* current_image_path whose file exists, and generates otherwise; so the   *)
(* /process after a successful /upload is an edit, the one after a /reset  *)
(* is a generation, and the one after a successful /process edits the      *)
(* image that /process produced.                                           *)
(***************************************************************************)
ReachedImageStep(e) == e.op = "process" /\ e.mode # None
Succeeded(e, op) == e.op = op /\ e.status = 200
HeldImage(e) ==
    /\ session_get(e.before, "current_image_path") # None
    /\ session_get(e.before, "current_image_path") \in e.files_before

ProcessEditsCurrentImage(k) ==
    LET e == session.log[k]
    IN  ReachedImageStep(e)
        => /\ e.mode = "edit" <=> HeldImage(e)
           /\ e.mode = "edit" => e.input_image = session_get(e.before, "current_image_path")
           /\ e.mode \in { "edit", "generate" }
           /\ k > 1 =>
                /\ Succeeded(session.log[k - 1], "upload") => e.mode = "edit"
                /\ session.log[k - 1].op = "reset" => e.mode = "generate"
                /\ Succeeded(session.log[k - 1], "process")
                   => /\ e.mode = "edit"
                      /\ e.input_image = session_get(session.log[k - 1].after,
                                                      "current_image_path")
                      /\ e.input_image \notin session.log[k - 1].files_before

C25_ProcessEditsCurrentImage ==
    session # Idle => \A k \in 1..Len(session.log) : ProcessEditsCurrentImage(k)

(***************************************************************************)
(* C26 -- total_cost of the session is the sum of the costs of the         *)
(* successful /process requests since the last /upload or /reset, 0.01 for *)
(* an edit and 0.005 for a generation; a failed /process adds nothing, and *)
(* the total never goes down except by /upload and /reset.                 *)
(***************************************************************************)
TotalCost(data) == IF "total_cost" \in DOMAIN data THEN data["total_cost"] ELSE FZero

RECURSIVE CostOfRun(_, _)
CostOfRun(log, k) ==
    IF k = 0 THEN FZero
    ELSE IF log[k].op = "reset" \/ Succeeded(log[k], "upload") THEN FZero
    ELSE IF Succeeded(log[k], "process")
    THEN FAddRaw(CostOfRun(log, k - 1),
                 IF log[k].mode = "edit" THEN FDivIntRaw(1, 100) ELSE FDivIntRaw(1, 200))
    ELSE CostOfRun(log, k - 1)

TotalCostIsSum(k) ==
    LET e == session.log[k]
    IN  /\ TotalCost(e.after) = CostOfRun(session.log, k)
        /\ (e.op = "process" /\ e.status # 200) => TotalCost(e.after) = TotalCost(e.before)
        /\ ~(e.op = "reset" \/ Succeeded(e, "upload"))
           => FLe(TotalCost(e.before), TotalCost(e.after))

C26_TotalCostIsSum ==
    session # Idle => \A k \in 1..Len(session.log) : TotalCostIsSum(k)

(***************************************************************************)
(* C27 -- the history changes in three ways only: a successful /upload     *)
(* replaces it with a single 'upload' entry, a successful /process appends *)
(* exactly one 'user' entry, /reset empties it.  A failed /process (400 or *)
(* 500) leaves the entries, current_image_path and current_image_url as    *)
(* they were.                                                              *)
(***************************************************************************)
History(data) == IF "history" \in DOMAIN data THEN data["history"] ELSE <<>>

HistoryChangesAsClaimed(k) ==
    LET e == session.log[k]
        before == History(e.before)
        after  == History(e.after)
    IN  IF Succeeded(e, "upload")
        THEN Len(after) = 1 /\ after[1].type = "upload"
        ELSE IF Succeeded(e, "process")
        THEN /\ Len(after) = Len(before) + 1
             /\ SubSeq(after, 1, Len(before)) = before
             /\ after[Len(after)].type = "user"
        ELSE IF e.op = "reset"
        THEN after = <<>>
        ELSE /\ after = before
             /\ e.op = "process"
                => /\ session_get(e.after, "current_image_path")
                        = session_get(e.before, "current_image_path")
                   /\ session_get(e.after, "current_image_url")
                        = session_get(e.before, "current_image_url")

C27_HistoryChangesAsClaimed ==
    session # Idle => \A k \in 1..Len(session.log) : HistoryChangesAsClaimed(k)

(***************************************************************************)
(* C28 -- scrape_instagram_posts keeps polling until the status of the run *)
(* is SUCCEEDED, FAILED or ABORTED; it fetches the dataset and returns the *)
(* posts only after SUCCEEDED and a 200 answer for the dataset; it raises  *)
(* on FAILED, on ABORTED, on a start not answered 201 and on a dataset not *)
(* answered 200; it does not end while the run has not reached one of the  *)
(* three statuses.                                                         *)
(***************************************************************************)
ScrapeEnded == scrape.pc \in { "returned", "raised" }

ScrapeEndsAsClaimed ==
    /\ scrape.pc = "start" => scrape.run_status = "NONE"
    /\ scrape.pc = "poll" => scrape.status \notin { "SUCCEEDED", "FAILED", "ABORTED" }
    /\ scrape.pc = "fetch" => scrape.status = "SUCCEEDED" /\ scrape.run_status = "SUCCEEDED"
    /\ scrape.pc = "returned"
       => /\ scrape.status = "SUCCEEDED" /\ scrape.run_status = "SUCCEEDED"
          /\ Len(scrape.value.value) = Len(scrape.dataset)
          /\ \A k \in 1..Len(scrape.value.value) :
                /\ DOMAIN scrape.value.value[k] = DOMAIN scrape.dataset[k]
                /\ \A key \in DOMAIN scrape.value.value[k] :
                      IF key \in { "images", "childPosts" }
                      THEN /\ Len(scrape.value.value[k][key]) <= 10
                           /\ scrape.value.value[k][key]
                                  = SubSeq(scrape.dataset[k][key], 1, Len(scrape.value.value[k][key]))
                           /\ Len(scrape.dataset[k][key]) <= 10
                              => scrape.value.value[k][key] = scrape.dataset[k][key]
                      ELSE scrape.value.value[k][key] = scrape.dataset[k][key]
    /\ scrape.pc = "raised"
       => \/ scrape.run_status = "NONE" /\ scrape.value = Raised("Failed to start actor")
          \/ /\ scrape.status \in { "FAILED", "ABORTED" }
             /\ scrape.run_status = scrape.status
          \/ scrape.status = "SUCCEEDED" /\ scrape.value = Raised("Failed to fetch dataset")

====
